---- MODULE Spec2Model ----
(***************************************************************************)
(* Transcript acquisition pipeline of the YouTube summarizer:              *)
(* extractTranscript tries yt-dlp captions first and falls back to         *)
(* downloading the audio and transcribing it with Deepgram.                *)
(*                                                                         *)
(* Strings whose characters matter (subtitle lines, paragraphs) are        *)
(* sequences of one-character strings.  Optional JavaScript values are     *)
(* tagged tuples: <<"undefined">>, <<"null">>, <<"string", s>>,            *)
(* <<"number", n>>, <<"array", s>>, <<"object", r>>.                       *)
(***************************************************************************)
EXTENDS Integers, Sequences, FiniteSets, TLC

\* ------------------------------------------------------------------------
\* Bounds of the model
\* ------------------------------------------------------------------------
\* longest subtitle file, in lines
MaxLines == 3
\* longest utterance list returned by the speech-to-text service
MaxUtterances == 4
\* most chunks the download stream delivers
MaxChunks == 2
\* lines of a .env file
MaxEnvLines == 2
\* most prompts for a line of the transcript that are answered
MaxInputLines == 4

\* ------------------------------------------------------------------------
\* JavaScript values
\* ------------------------------------------------------------------------
Undefined == <<"undefined">>
Null == <<"null">>
Str(s) == <<"string", s>>
Num(n) == <<"number", n>>
Arr(s) == <<"array", s>>
Obj(r) == <<"object", r>>

Range(s) == {s[i] : i \in 1..Len(s)}

\* ------------------------------------------------------------------------
\* String helpers used by downloadAndCleanYtDlpTranscript
\* ------------------------------------------------------------------------
WhiteSpace == {" ", "\t", "\r", "\n"}
Digits == {"0", "1", "2", "3", "4", "5", "6", "7", "8", "9"}

RECURSIVE TrimStart(_)
TrimStart(s) ==
    IF s = <<>> THEN <<>>
    ELSE IF Head(s) \in WhiteSpace THEN TrimStart(Tail(s)) ELSE s

RECURSIVE TrimEnd(_)
TrimEnd(s) ==
    IF s = <<>> THEN <<>>
    ELSE IF s[Len(s)] \in WhiteSpace THEN TrimEnd(SubSeq(s, 1, Len(s) - 1)) ELSE s

\* String.prototype.trim
Trim(s) == TrimEnd(TrimStart(s))

\* String.prototype.startsWith
StartsWith(s, p) == Len(s) >= Len(p) /\ SubSeq(s, 1, Len(p)) = p

\* String.prototype.includes
Includes(s, p) == \E i \in 1..(Len(s) - Len(p) + 1) : SubSeq(s, i, i + Len(p) - 1) = p

\* /^\d+$/.test
IsAllDigits(s) == Len(s) > 0 /\ \A i \in 1..Len(s) : s[i] \in Digits

\* s.replace(/<open>[^<close>]*<close>/g, ''): every leftmost shortest span
\* from an opening to the next closing delimiter is removed
RECURSIVE RemoveDelimited(_, _, _)
RemoveDelimited(s, open, close) ==
    IF s = <<>> THEN <<>>
    ELSE IF Head(s) = open /\ \E k \in 2..Len(s) : s[k] = close
         THEN LET k == CHOOSE j \in 2..Len(s) :
                         s[j] = close /\ \A m \in 2..(j - 1) : s[m] # close
              IN  RemoveDelimited(SubSeq(s, k + 1, Len(s)), open, close)
         ELSE <<Head(s)>> \o RemoveDelimited(Tail(s), open, close)

\* vttContent.split(/\r?\n/)
RECURSIVE SplitLinesFrom(_, _, _)
SplitLinesFrom(content, cur, acc) ==
    IF content = <<>> THEN Append(acc, cur)
    ELSE IF Head(content) = "\n"
         THEN SplitLinesFrom(Tail(content), <<>>, Append(acc, cur))
         ELSE IF Head(content) = "\r" /\ Len(content) >= 2 /\ content[2] = "\n"
              THEN SplitLinesFrom(Tail(Tail(content)), <<>>, Append(acc, cur))
              ELSE SplitLinesFrom(Tail(content), Append(cur, Head(content)), acc)

SplitLines(content) == SplitLinesFrom(content, <<>>, <<>>)

\* Array.prototype.join
RECURSIVE Join(_, _)
Join(parts, sep) ==
    IF parts = <<>> THEN <<>>
    ELSE IF Len(parts) = 1 THEN parts[1]
    ELSE parts[1] \o sep \o Join(Tail(parts), sep)

\* [...new Set(items)]: a Set iterates in insertion order and ignores the
\* insertion of a value it already holds
RECURSIVE SetInsertAll(_, _)
SetInsertAll(items, acc) ==
    IF items = <<>> THEN acc
    ELSE SetInsertAll(Tail(items),
                      IF Head(items) \in Range(acc) THEN acc ELSE Append(acc, Head(items)))

\* Faulty variant of UniqueArray: the array is not deduplicated.
UniqueArray_KeepingDuplicates(items) == items

UniqueArray(items) == SetInsertAll(items, <<>>)

\* the test of the loop body that skips a subtitle line
IsSkippedLine(trimmedLine) ==
    \/ trimmedLine = <<>>
    \/ StartsWith(trimmedLine, <<"W", "E", "B", "V", "T", "T">>)
    \/ StartsWith(trimmedLine, <<"K", "i", "n", "d", ":">>)
    \/ StartsWith(trimmedLine, <<"L", "a", "n", "g", "u", "a", "g", "e", ":">>)
    \/ Includes(trimmedLine, <<"-", "-", ">">>)
    \/ IsAllDigits(trimmedLine)

\* Faulty variant of CleanLine: the tags are not removed.
CleanLine_KeepingTags(trimmedLine) == Trim(RemoveDelimited(trimmedLine, "[", "]"))

\* cleanLine of the loop body
CleanLine(trimmedLine) ==
    Trim(RemoveDelimited(RemoveDelimited(trimmedLine, "<", ">"), "[", "]"))

\* the for loop over the lines: the array textLines it builds
RECURSIVE CollectTextLines(_, _)
CollectTextLines(lines, textLines) ==
    IF lines = <<>> THEN textLines
    ELSE LET trimmedLine == Trim(Head(lines))
             cleanLine == CleanLine(trimmedLine)
         IN  CollectTextLines(Tail(lines),
                 IF IsSkippedLine(trimmedLine) THEN textLines
                 ELSE IF cleanLine # <<>> THEN Append(textLines, cleanLine)
                 ELSE textLines)

\* fullParagraph
FullParagraph(textLines) == Join(UniqueArray(textLines), <<" ">>)


\* ------------------------------------------------------------------------
\* Inputs and external outcomes
\* ------------------------------------------------------------------------
BoundedSeq(S, n) == UNION {[1..k -> S] : k \in 0..n}

\* arguments of extractTranscript; the empty string is the falsy argument
Urls == {"", "https://youtu.be/abc"}
VideoIds == {"", "abc"}
\* process.env.DEEPGRAM_API_KEY; Undefined when the variable is not set
ApiKeys == {Undefined, Str(""), Str("dg-key")}

\* lines a subtitle file written by yt-dlp is made of
VttLines ==
    { <<>>,
      <<"W", "E", "B", "V", "T", "T">>,
      <<"K", "i", "n", "d", ":", "c">>,
      <<"0", "-", "-", ">", "1">>,
      <<" ", "1", "2">>,
      <<"<", "c", ">">>,
      <<"<", "c", ">", " ", "<", "/", "c", ">">>,
      <<"[", "m", "]">>,
      <<"h", "i">>,
      <<"<", "c", ">", "h", "i", "<", "/", "c", ">">>,
      <<"y", "o", "[", "m", "]", " ">> }

LineEndings == { <<"\n">>, <<"\r", "\n">> }

\* contents of the subtitle file
VttFiles == {Join(ls, eol) : ls \in BoundedSeq(VttLines, MaxLines), eol \in LineEndings}

\* videoInfo.videoDetails as returned by ytdl.getInfo
VideoDetails == [title |-> "title", author |-> [name |-> "author"], lengthSeconds |-> <<"4", "2">>]

\* parseInt(s, 10) of a string of decimal digits
RECURSIVE ParseIntFrom(_, _)
ParseIntFrom(s, acc) ==
    IF s = <<>> \/ Head(s) \notin Digits THEN acc
    ELSE ParseIntFrom(Tail(s),
             10 * acc + (CHOOSE d \in 0..9 : <<"0", "1", "2", "3", "4", "5", "6", "7", "8", "9">>[d + 1] = Head(s)))

ParseInt(s) == ParseIntFrom(s, 0)

\* the metadata object built from videoInfo
MetadataOf(details) ==
    Obj([title |-> details.title,
         author |-> details.author.name,
         duration |-> ParseInt(details.lengthSeconds)])

\* utterance.speaker values of a Deepgram response
SpeakerValues == {Num(0), Num(1), Undefined, Null}

\* String(value)
StringOf(v) ==
    IF v = Undefined THEN "undefined"
    ELSE IF v = Null THEN "null"
    ELSE <<"0", "1", "2", "3", "4", "5", "6", "7", "8", "9">>[v[2] + 1]

\* result.results.channels[0].alternatives[0] of a response, or Undefined
Alternatives ==
    { Undefined,
      Obj([transcript |-> <<>>, confidence |-> 0]),
      Obj([transcript |-> <<"o", "k">>, confidence |-> 99]) }

\* result.results.utterances of a response, or Undefined
UtteranceLists == {Undefined} \cup {Arr(u) : u \in BoundedSeq(SpeakerValues, MaxUtterances)}

\* Faulty variant of TempVttFile: one name for the subtitle file of every
\* video.
TempVttFile_SharedName(id) == <<"transcripts", "subtitles", ".en.vtt">>

\* temporary files
TempVttFile(id) == <<"transcripts", id, ".en.vtt">>
AudioFilePath(id) == <<"transcripts", id, ".mp4">>

\* ------------------------------------------------------------------------
\* State
\* ------------------------------------------------------------------------
VARIABLES
    youtubeUrl,       \* argument of extractTranscript
    videoId,          \* argument of extractTranscript
    deepgramApiKey,   \* process.env.DEEPGRAM_API_KEY
    pc,               \* position of the invocation of extractTranscript
    disk,             \* paths of the files that exist
    unlinkWarned,     \* paths safeDeleteFile failed to delete (its warning)
    calls,            \* external calls made so far, in order
    vttContent,       \* downloadAndCleanYtDlpTranscript: content read
    textLines,        \* downloadAndCleanYtDlpTranscript: cleaned lines
    fullParagraph,    \* downloadAndCleanYtDlpTranscript: joined paragraph
    capReturn,        \* downloadAndCleanYtDlpTranscript: value being returned
    capFailure,       \* why the caption step failed, "none" if it has not
    ytDlpTranscript,  \* extractTranscript: result of the caption step
    metadata,         \* extractTranscript: metadata object
    downloadStream,   \* downloadAudio: state of the ytdl stream
    audioStream,      \* downloadAudio: state of the file write stream
    timeout,          \* downloadAudio: state of the 5 minute timer
    dlPromise,        \* downloadAudio: state of the returned promise
    delivered,        \* chunks the download stream has piped so far
    written,          \* chunks the write stream has written to the file
    audioFileBuffer,  \* extractTranscript: chunks read from the audio file
    response,         \* extractTranscript: result object of transcribeFile
    error,            \* error caught by the handler of the audio path
    thrown,           \* error extractTranscript threw to its caller
    result            \* TranscriptResult returned to the caller

\* the state of one invocation of extractTranscript
pipelineVars == <<youtubeUrl, videoId, deepgramApiKey, pc, disk, unlinkWarned, calls,
                  vttContent, textLines, fullParagraph, capReturn, capFailure,
                  ytDlpTranscript, metadata, downloadStream, audioStream, timeout,
                  dlPromise, delivered, written, audioFileBuffer, response, error,
                  thrown, result>>

inputVars == <<youtubeUrl, videoId, deepgramApiKey>>
captionVars == <<vttContent, textLines, fullParagraph, capReturn, capFailure>>
downloadVars == <<downloadStream, audioStream, timeout, dlPromise, delivered, written>>

\* generateSummary (summarize.ts)
VARIABLES
    sumTranscript,    \* argument transcript of generateSummary
    sumMetadata,      \* argument videoMetadata of generateSummary
    geminiApiKey,     \* process.env.GEMINI_API_KEY
    sumPc,            \* position of the invocation of generateSummary
    prompt,           \* the prompt built from the arguments
    serviceCalls,     \* number of calls of model.generateContent
    summary,          \* value generateSummary resolves to
    sumThrown         \* error generateSummary rejected with

summaryVars == <<sumTranscript, sumMetadata, geminiApiKey, sumPc, prompt,
                 serviceCalls, summary, sumThrown>>

\* the setup script
VARIABLES
    dirs,             \* directories that exist
    envFile,          \* content of the .env file, Undefined without one
    setupPc,          \* position of the setup script
    keyReport         \* what the script has reported about each key

setupVars == <<dirs, envFile, setupPc, keyReport>>

\* the manual transcript helper
VARIABLES
    rl,               \* the readline interface: "open" or "closed"
    hPc,              \* position of runInteractiveHelper
    videoUrl,         \* runInteractiveHelper: the URL entered
    helperVideoId,    \* runInteractiveHelper: videoId
    title,            \* runInteractiveHelper: the title entered
    transcript,       \* runInteractiveHelper: transcript
    lineCount,        \* runInteractiveHelper: lineCount
    emptyLineCount,   \* runInteractiveHelper: emptyLineCount
    answeredLines,    \* the lines askQuestion has returned in the loop
    cleanedTranscript, \* runInteractiveHelper: cleanedTranscript
    saved,            \* files written by saveTranscript
    helperError       \* whether the catch block has logged an error

helperVars == <<rl, hPc, videoUrl, helperVideoId, title, transcript, lineCount,
                emptyLineCount, answeredLines, cleanedTranscript, saved, helperError>>

\* two invocations of extractTranscript in one process
VARIABLES
    invocation,       \* the state of each of the two invocations
    sharedFiles       \* the files of the transcripts directory, with their data

concurrentVars == <<invocation, sharedFiles>>

\* main and runBatchHelper of the manual transcript helper
VARIABLES
    args,             \* main: the command line arguments
    mainPc,           \* position of main
    bPc,              \* position of runBatchHelper
    dirEntries,       \* names in the transcripts directory, as readdirSync lists them
    batchFiles,       \* runBatchHelper: files
    processed,        \* runBatchHelper: processed
    errors,           \* runBatchHelper: errors
    cleanedFiles      \* names of the files written by runBatchHelper

batchVars == <<args, mainPc, bPc, dirEntries, batchFiles, processed, errors,
               cleanedFiles>>

\* the state of the programs other than extractTranscript
toolVars == <<summaryVars, setupVars, helperVars, concurrentVars, batchVars>>

vars == <<pipelineVars, toolVars>>

\* generateSummary is not running
SummaryIdle ==
    /\ sumTranscript = ""
    /\ sumMetadata = [title |-> "", author |-> ""]
    /\ geminiApiKey = Undefined
    /\ sumPc = "idle"
    /\ prompt = Undefined
    /\ serviceCalls = 0
    /\ summary = Undefined
    /\ sumThrown = "none"

\* main of the manual transcript helper is not running
BatchIdle ==
    /\ args = ""
    /\ mainPc = "idle"
    /\ bPc = "idle"
    /\ dirEntries = <<>>
    /\ batchFiles = <<>>
    /\ processed = 0
    /\ errors = 0
    /\ cleanedFiles = {}

\* no second invocation is running
ConcurrentIdle ==
    /\ invocation = <<>>
    /\ sharedFiles = {}

\* the manual transcript helper is not running
HelperIdle ==
    /\ rl = "closed"
    /\ hPc = "idle"
    /\ videoUrl = Undefined
    /\ helperVideoId = Undefined
    /\ title = Undefined
    /\ transcript = <<>>
    /\ lineCount = 0
    /\ emptyLineCount = 0
    /\ answeredLines = <<>>
    /\ cleanedTranscript = Undefined
    /\ saved = {}
    /\ helperError = "none"

\* the setup script is not running
SetupIdle ==
    /\ dirs = {}
    /\ envFile = Undefined
    /\ setupPc = "idle"
    /\ keyReport = <<>>

\* extractTranscript has been called and nothing has run yet
PipelineStart ==
    /\ pc = "start"
    /\ disk = {}
    /\ unlinkWarned = {}
    /\ calls = <<>>
    /\ vttContent = <<>>
    /\ textLines = <<>>
    /\ fullParagraph = <<>>
    /\ capReturn = Undefined
    /\ capFailure = "none"
    /\ ytDlpTranscript = Undefined
    /\ metadata = Undefined
    /\ downloadStream = "none"
    /\ audioStream = "none"
    /\ timeout = "none"
    /\ dlPromise = "none"
    /\ delivered = 0
    /\ written = 0
    /\ audioFileBuffer = 0
    /\ response = Undefined
    /\ error = "none"
    /\ thrown = "none"
    /\ result = Undefined

\* extractTranscript is not running
PipelineIdle ==
    /\ youtubeUrl = ""
    /\ videoId = ""
    /\ deepgramApiKey = Undefined
    /\ PipelineStart

Init ==
    /\ youtubeUrl \in Urls
    /\ videoId \in VideoIds
    /\ deepgramApiKey \in ApiKeys
    /\ PipelineStart
    /\ SummaryIdle
    /\ SetupIdle
    /\ HelperIdle
    /\ ConcurrentIdle
    /\ BatchIdle

\* ------------------------------------------------------------------------
\* safeDeleteFile
\* ------------------------------------------------------------------------
\* outcomes of fs.unlinkSync the caller has to consider for the path
UnlinkOutcomes(filePath) == IF filePath \in disk THEN BOOLEAN ELSE {TRUE}

\* Faulty variant of SafeDeleteFile: the file is never unlinked.
SafeDeleteFile_NeverUnlinking(files, filePath, unlinkOk) == files

\* the files left after safeDeleteFile(filePath); unlinkOk is whether
\* fs.unlinkSync succeeds
SafeDeleteFile(files, filePath, unlinkOk) ==
    IF filePath \in files /\ unlinkOk THEN files \ {filePath} ELSE files

\* the warnings logged after safeDeleteFile(filePath)
SafeDeleteWarnings(files, filePath, unlinkOk, warned) ==
    IF filePath \in files /\ ~unlinkOk THEN warned \cup {filePath} ELSE warned


\* ------------------------------------------------------------------------
\* extractTranscript: input validation
\* ------------------------------------------------------------------------
\* the call of extractTranscript up to its first await, the yt-dlp command
ExtractTranscript ==
    /\ pc = "start"
    /\ IF youtubeUrl = "" \/ videoId = ""
       THEN /\ thrown' = "input"
            /\ pc' = "threw"
            /\ UNCHANGED calls
       ELSE /\ calls' = Append(calls, "yt-dlp")
            /\ pc' = "execYtDlp"
            /\ UNCHANGED thrown
    /\ UNCHANGED <<toolVars, inputVars, captionVars, downloadVars, disk, unlinkWarned,
                   ytDlpTranscript, metadata, audioFileBuffer, response, error, result>>

\* ------------------------------------------------------------------------
\* downloadAndCleanYtDlpTranscript
\* ------------------------------------------------------------------------
\* Faulty variant of YtDlpExits: without the catch block, the error of the
\* command is thrown to the caller of extractTranscript.
YtDlpExits_Throwing ==
    /\ pc = "execYtDlp"
    /\ \E outcome \in {"ok", "commandNotFound", "exitError"}, wrote \in BOOLEAN :
          /\ outcome = "commandNotFound" => ~wrote
          /\ disk' = IF wrote THEN disk \cup {TempVttFile(videoId)} ELSE disk
          /\ IF outcome = "ok"
             THEN /\ pc' = "readVtt"
                  /\ UNCHANGED <<capFailure, thrown>>
             ELSE /\ capFailure' = outcome
                  /\ thrown' = "yt-dlp"
                  /\ pc' = "threw"
    /\ UNCHANGED <<toolVars, inputVars, downloadVars, unlinkWarned, calls, vttContent,
                   textLines, fullParagraph, capReturn, ytDlpTranscript,
                   metadata, audioFileBuffer, response, error, result>>

\* the yt-dlp process exits: with status 0 (having written the subtitle
\* file or not), or with an error that the catch block turns into null
YtDlpExits ==
    /\ pc = "execYtDlp"
    /\ \E outcome \in {"ok", "commandNotFound", "exitError"}, wrote \in BOOLEAN :
          /\ outcome = "commandNotFound" => ~wrote
          /\ disk' = IF wrote THEN disk \cup {TempVttFile(videoId)} ELSE disk
          /\ IF outcome = "ok"
             THEN /\ pc' = "readVtt"
                  /\ UNCHANGED <<capReturn, capFailure>>
             ELSE /\ capFailure' = outcome
                  /\ capReturn' = Null
                  /\ pc' = "capFinally"
    /\ UNCHANGED <<toolVars, inputVars, downloadVars, unlinkWarned, calls, vttContent,
                   textLines, fullParagraph, ytDlpTranscript, metadata,
                   audioFileBuffer, response, error, thrown, result>>

\* fsPromises.readFile settles: with the content of the subtitle file, or
\* with an error that the catch block turns into null
ReadVttFile ==
    /\ pc = "readVtt"
    /\ \/ /\ TempVttFile(videoId) \in disk
          /\ \E content \in VttFiles : vttContent' = content
          /\ pc' = "cleanVtt"
          /\ UNCHANGED <<capReturn, capFailure>>
       \/ /\ capFailure' = IF TempVttFile(videoId) \in disk
                           THEN "fileUnreadable" ELSE "fileMissing"
          /\ capReturn' = Null
          /\ pc' = "capFinally"
          /\ UNCHANGED vttContent
    /\ UNCHANGED <<toolVars, inputVars, downloadVars, disk, unlinkWarned, calls,
                   textLines, fullParagraph, ytDlpTranscript, metadata,
                   audioFileBuffer, response, error, thrown, result>>

\* the cleaning loop, the deduplication and the choice of the return value
CleanVtt ==
    /\ pc = "cleanVtt"
    /\ textLines' = CollectTextLines(SplitLines(vttContent), <<>>)
    /\ fullParagraph' = FullParagraph(textLines')
    /\ IF Len(fullParagraph') > 0
       THEN /\ capReturn' = Str(fullParagraph')
            /\ UNCHANGED capFailure
       ELSE /\ capReturn' = Null
            /\ capFailure' = "emptyParagraph"
    /\ pc' = "capFinally"
    /\ UNCHANGED <<toolVars, inputVars, downloadVars, disk, unlinkWarned, calls,
                   vttContent, ytDlpTranscript, metadata, audioFileBuffer, response,
                   error, thrown, result>>

\* Faulty variant of CaptionFinally: without the try/catch of
\* safeDeleteFile, a failing fs.unlinkSync is thrown out of the finally
\* block to the caller of extractTranscript.
CaptionFinally_ThrowingUnlinkError ==
    /\ pc = "capFinally"
    /\ \E unlinkOk \in UnlinkOutcomes(TempVttFile(videoId)) :
          /\ disk' = SafeDeleteFile(disk, TempVttFile(videoId), unlinkOk)
          /\ unlinkWarned' = SafeDeleteWarnings(disk, TempVttFile(videoId), unlinkOk, unlinkWarned)
          /\ IF unlinkOk
             THEN /\ ytDlpTranscript' = capReturn
                  /\ pc' = "afterCaption"
                  /\ UNCHANGED thrown
             ELSE /\ thrown' = "unlink"
                  /\ pc' = "threw"
                  /\ UNCHANGED ytDlpTranscript
    /\ vttContent' = <<>>
    /\ textLines' = <<>>
    /\ fullParagraph' = <<>>
    /\ capReturn' = Undefined
    /\ UNCHANGED <<toolVars, inputVars, downloadVars, calls, capFailure, metadata,
                   audioFileBuffer, response, error, result>>

\* the finally block, and the return to extractTranscript
CaptionFinally ==
    /\ pc = "capFinally"
    /\ \E unlinkOk \in UnlinkOutcomes(TempVttFile(videoId)) :
          /\ disk' = SafeDeleteFile(disk, TempVttFile(videoId), unlinkOk)
          /\ unlinkWarned' = SafeDeleteWarnings(disk, TempVttFile(videoId), unlinkOk, unlinkWarned)
    /\ ytDlpTranscript' = capReturn
    /\ vttContent' = <<>>
    /\ textLines' = <<>>
    /\ fullParagraph' = <<>>
    /\ capReturn' = Undefined
    /\ pc' = "afterCaption"
    /\ UNCHANGED <<toolVars, inputVars, downloadVars, calls, capFailure, metadata,
                   audioFileBuffer, response, error, thrown, result>>

\* ------------------------------------------------------------------------
\* extractTranscript: the caption result
\* ------------------------------------------------------------------------
\* if (ytDlpTranscript): a non-empty string
IsTruthy(v) == v # Undefined /\ v # Null /\ v # Str(<<>>)

\* Faulty variant of AfterCaption: the caption result is not tested and
\* the audio path is always entered.
AfterCaption_AlwaysAudio ==
    /\ pc = "afterCaption"
    /\ pc' = "checkApiKey"
    /\ UNCHANGED <<toolVars, inputVars, captionVars, downloadVars, disk, unlinkWarned,
                   calls, ytDlpTranscript, metadata, audioFileBuffer,
                   response, error, thrown, result>>

\* the test of the caption result; with captions, the metadata fetch starts
AfterCaption ==
    /\ pc = "afterCaption"
    /\ IF IsTruthy(ytDlpTranscript)
       THEN /\ calls' = Append(calls, "getInfo:captions")
            /\ pc' = "captionMetadata"
       ELSE /\ pc' = "checkApiKey"
            /\ UNCHANGED calls
    /\ UNCHANGED <<toolVars, inputVars, captionVars, downloadVars, disk, unlinkWarned,
                   ytDlpTranscript, metadata, audioFileBuffer, response, error, thrown,
                   result>>

\* Faulty variant of CaptionMetadata: without the inner try block, a failed
\* metadata fetch is thrown to the caller.
CaptionMetadata_FetchFatal ==
    /\ pc = "captionMetadata"
    /\ \E getInfoOk \in BOOLEAN :
          IF getInfoOk
          THEN /\ metadata' = MetadataOf(VideoDetails)
               /\ result' = Obj([transcript |-> ytDlpTranscript,
                                 method |-> "youtube-captions-ydlp",
                                 confidence |-> Undefined,
                                 speakers |-> Undefined,
                                 metadata |-> metadata'])
               /\ pc' = "done"
               /\ UNCHANGED thrown
          ELSE /\ thrown' = "getInfo"
               /\ pc' = "threw"
               /\ UNCHANGED <<metadata, result>>
    /\ UNCHANGED <<toolVars, inputVars, captionVars, downloadVars, disk, unlinkWarned,
                   calls, ytDlpTranscript, audioFileBuffer, response, error>>

\* ytdl.getInfo of the caption path settles, and the result is returned
CaptionMetadata ==
    /\ pc = "captionMetadata"
    /\ \E getInfoOk \in BOOLEAN :
          metadata' = IF getInfoOk THEN MetadataOf(VideoDetails) ELSE Undefined
    /\ result' = Obj([transcript |-> ytDlpTranscript,
                      method |-> "youtube-captions-ydlp",
                      confidence |-> Undefined,
                      speakers |-> Undefined,
                      metadata |-> metadata'])
    /\ pc' = "done"
    /\ UNCHANGED <<toolVars, inputVars, captionVars, downloadVars, disk, unlinkWarned,
                   calls, ytDlpTranscript, audioFileBuffer, response, error, thrown>>

\* ------------------------------------------------------------------------
\* extractTranscript: the Deepgram path
\* ------------------------------------------------------------------------
\* Faulty variant of CheckApiKey: the key is not checked before the
\* metadata fetch starts.
CheckApiKey_Unchecked ==
    /\ pc = "checkApiKey"
    /\ calls' = Append(calls, "getInfo:audio")
    /\ pc' = "audioMetadata"
    /\ UNCHANGED <<toolVars, inputVars, captionVars, downloadVars, disk, unlinkWarned,
                   ytDlpTranscript, metadata, audioFileBuffer, response,
                   error, thrown, result>>

\* the key check; with a key, the client is created, the directory is
\* ensured and the metadata fetch starts
CheckApiKey ==
    /\ pc = "checkApiKey"
    /\ IF deepgramApiKey \in {Undefined, Str("")}
       THEN /\ thrown' = "config"
            /\ pc' = "threw"
            /\ UNCHANGED calls
       ELSE /\ calls' = Append(calls, "getInfo:audio")
            /\ pc' = "audioMetadata"
            /\ UNCHANGED thrown
    /\ UNCHANGED <<toolVars, inputVars, captionVars, downloadVars, disk, unlinkWarned,
                   ytDlpTranscript, metadata, audioFileBuffer, response, error, result>>

\* ytdl.getInfo of the audio path settles; on success the format is chosen
\* and downloadAudio is called, which creates both streams and the timer
AudioMetadata ==
    /\ pc = "audioMetadata"
    /\ \E outcome \in {"ok", "getInfoFailed", "noAudioFormat"} :
          IF outcome = "ok"
          THEN /\ metadata' = MetadataOf(VideoDetails)
               /\ calls' = calls \o <<"chooseFormat", "downloadAudio">>
               /\ disk' = disk \cup {AudioFilePath(videoId)}
               /\ audioStream' = "open"
               /\ downloadStream' = "flowing"
               /\ timeout' = "pending"
               /\ dlPromise' = "pending"
               /\ pc' = "awaitDownload"
               /\ UNCHANGED <<error, delivered, written>>
          ELSE /\ metadata' = IF outcome = "noAudioFormat"
                              THEN MetadataOf(VideoDetails) ELSE metadata
               /\ calls' = IF outcome = "noAudioFormat"
                           THEN Append(calls, "chooseFormat") ELSE calls
               /\ error' = outcome
               /\ pc' = "catch"
               /\ UNCHANGED <<disk, downloadVars>>
    /\ UNCHANGED <<toolVars, inputVars, captionVars, unlinkWarned, ytDlpTranscript,
                   audioFileBuffer, response, thrown, result>>


\* ------------------------------------------------------------------------
\* downloadAudio: the events of the two streams and of the timer
\* ------------------------------------------------------------------------
\* An event handler runs only when no synchronous code and no promise
\* continuation of extractTranscript is runnable.
AtAwait ==
    \/ pc \in {"awaitTranscribe", "done", "threw"}
    \/ pc = "awaitDownload" /\ dlPromise = "pending"

\* resolve() of the promise of downloadAudio: a settled promise stays as it is
Resolve(promise) == IF promise = "pending" THEN "resolved" ELSE promise

\* reject(err) of the promise of downloadAudio
Reject(promise, reason) == IF promise = "pending" THEN reason ELSE promise

\* the download stream hands a chunk to the write stream it is piped into
DownloadData ==
    /\ AtAwait
    /\ downloadStream = "flowing"
    /\ audioStream = "open"
    /\ delivered < MaxChunks
    /\ delivered' = delivered + 1
    /\ UNCHANGED <<toolVars, inputVars, captionVars, pc, disk, unlinkWarned, calls,
                   ytDlpTranscript, metadata, downloadStream, audioStream,
                   timeout, dlPromise, written, audioFileBuffer, response, error,
                   thrown, result>>

\* the write stream writes a buffered chunk through its file descriptor
AudioStreamWrite ==
    /\ AtAwait
    /\ audioStream \in {"open", "ending"}
    /\ written < delivered
    /\ written' = written + 1
    /\ UNCHANGED <<toolVars, inputVars, captionVars, pc, disk, unlinkWarned, calls,
                   ytDlpTranscript, metadata, downloadStream, audioStream,
                   timeout, dlPromise, delivered, audioFileBuffer, response, error,
                   thrown, result>>

\* the write stream, ended by the pipe, has flushed and finishes
AudioStreamFinish ==
    /\ AtAwait
    /\ audioStream = "ending"
    /\ written = delivered
    /\ audioStream' = "finished"
    /\ UNCHANGED <<toolVars, inputVars, captionVars, pc, disk, unlinkWarned, calls,
                   ytDlpTranscript, metadata, downloadStream, timeout,
                   dlPromise, delivered, written, audioFileBuffer, response, error,
                   thrown, result>>

\* downloadStream 'end': the pipe ends the write stream, the first listener
\* resolves, the second clears the timer
DownloadEnd ==
    /\ AtAwait
    /\ downloadStream = "flowing"
    /\ downloadStream' = "ended"
    /\ audioStream' = IF audioStream = "open" THEN "ending" ELSE audioStream
    /\ dlPromise' = Resolve(dlPromise)
    /\ timeout' = IF timeout = "pending" THEN "cleared" ELSE timeout
    /\ UNCHANGED <<toolVars, inputVars, captionVars, pc, disk, unlinkWarned, calls,
                   ytDlpTranscript, metadata, delivered, written,
                   audioFileBuffer, response, error, thrown, result>>

\* downloadStream 'error'
DownloadStreamError ==
    /\ AtAwait
    /\ downloadStream = "flowing"
    /\ downloadStream' = "errored"
    /\ dlPromise' = Reject(dlPromise, "rejected:downloadStream")
    /\ UNCHANGED <<toolVars, inputVars, captionVars, pc, disk, unlinkWarned, calls,
                   ytDlpTranscript, metadata, audioStream, timeout, delivered,
                   written, audioFileBuffer, response, error, thrown, result>>

\* audioStream 'error'
AudioStreamError ==
    /\ AtAwait
    /\ audioStream \in {"open", "ending"}
    /\ audioStream' = "errored"
    /\ dlPromise' = Reject(dlPromise, "rejected:audioStream")
    /\ UNCHANGED <<toolVars, inputVars, captionVars, pc, disk, unlinkWarned, calls,
                   ytDlpTranscript, metadata, downloadStream, timeout,
                   delivered, written, audioFileBuffer, response, error, thrown,
          result>>

\* Faulty variant of DownloadTimeout: the write stream is not destroyed.
DownloadTimeout_LeavingWriteStream ==
    /\ AtAwait
    /\ timeout = "pending"
    /\ timeout' = "fired"
    /\ downloadStream' = "destroyed"
    /\ dlPromise' = Reject(dlPromise, "rejected:timeout")
    /\ UNCHANGED <<toolVars, inputVars, captionVars, pc, disk, unlinkWarned, calls,
                   ytDlpTranscript, metadata, audioStream, delivered, written,
                   audioFileBuffer, response, error, thrown, result>>

\* the callback of setTimeout, 5 minutes after the call of downloadAudio
DownloadTimeout ==
    /\ AtAwait
    /\ timeout = "pending"
    /\ timeout' = "fired"
    /\ downloadStream' = "destroyed"
    /\ audioStream' = "destroyed"
    /\ dlPromise' = Reject(dlPromise, "rejected:timeout")
    /\ UNCHANGED <<toolVars, inputVars, captionVars, pc, disk, unlinkWarned, calls,
                   ytDlpTranscript, metadata, delivered, written,
                   audioFileBuffer, response, error, thrown, result>>

\* Faulty variant of AfterDownload: the file is handed to Deepgram even
\* when the download was rejected.
AfterDownload_IgnoringRejection ==
    /\ pc = "awaitDownload"
    /\ dlPromise # "pending"
    /\ IF AudioFilePath(videoId) \in disk
       THEN /\ audioFileBuffer' = written
            /\ calls' = Append(calls, "transcribeFile")
            /\ pc' = "awaitTranscribe"
            /\ UNCHANGED error
       ELSE /\ error' = "readFileSync"
            /\ pc' = "catch"
            /\ UNCHANGED <<audioFileBuffer, calls>>
    /\ UNCHANGED <<toolVars, inputVars, captionVars, downloadVars, disk, unlinkWarned,
                   ytDlpTranscript, metadata, response, thrown, result>>

\* ------------------------------------------------------------------------
\* extractTranscript: after the download
\* ------------------------------------------------------------------------
\* await downloadAudio(...) continues: the file is read and handed to
\* Deepgram, or the rejection reaches the catch block
AfterDownload ==
    /\ pc = "awaitDownload"
    /\ dlPromise # "pending"
    /\ IF dlPromise = "resolved"
       THEN IF AudioFilePath(videoId) \in disk
            THEN /\ audioFileBuffer' = written
                 /\ calls' = Append(calls, "transcribeFile")
                 /\ pc' = "awaitTranscribe"
                 /\ UNCHANGED error
            ELSE /\ error' = "readFileSync"
                 /\ pc' = "catch"
                 /\ UNCHANGED <<audioFileBuffer, calls>>
       ELSE /\ error' = dlPromise
            /\ pc' = "catch"
            /\ UNCHANGED <<audioFileBuffer, calls>>
    /\ UNCHANGED <<toolVars, inputVars, captionVars, downloadVars, disk, unlinkWarned,
                   ytDlpTranscript, metadata, response, thrown, result>>

\* Faulty variant of IsSpeakerLabel: the sentinel "null" is kept.
IsSpeakerLabel_KeepingNull(speaker) == speaker # "undefined"

\* the strings the speaker filter keeps
IsSpeakerLabel(speaker) == speaker # "undefined" /\ speaker # "null"

\* utterances?.map(u => String(u.speaker))
RECURSIVE MapToString(_)
MapToString(values) ==
    IF values = <<>> THEN <<>>
    ELSE <<StringOf(Head(values))>> \o MapToString(Tail(values))

\* uniqueSpeakers
UniqueSpeakers(utterances) ==
    IF utterances = Undefined THEN Undefined
    ELSE LET speakers == SelectSeq(MapToString(utterances[2]), IsSpeakerLabel)
         IN  IF Len(speakers) > 0 THEN Arr(UniqueArray(speakers)) ELSE Undefined

\* transcribeFile settles: with a result, with an error in the response, or
\* by throwing; with a result the audio file is deleted and the
\* TranscriptResult returned
TranscribeFile ==
    /\ pc = "awaitTranscribe"
    /\ \/ /\ \E failure \in {"deepgramError", "deepgramThrew"} : error' = failure
          /\ pc' = "catch"
          /\ UNCHANGED <<disk, unlinkWarned, response, result>>
       \/ /\ \E alternative \in Alternatives, utterances \in UtteranceLists :
                response' = Obj([alternative |-> alternative, utterances |-> utterances])
          /\ result' = Obj([transcript |-> IF response'[2].alternative = Undefined THEN Null
                                           ELSE Str(response'[2].alternative[2].transcript),
                            method |-> "deepgram",
                            confidence |-> IF response'[2].alternative = Undefined THEN Undefined
                                           ELSE Num(response'[2].alternative[2].confidence),
                            speakers |-> UniqueSpeakers(response'[2].utterances),
                            metadata |-> metadata])
          /\ \E unlinkOk \in UnlinkOutcomes(AudioFilePath(videoId)) :
                /\ disk' = SafeDeleteFile(disk, AudioFilePath(videoId), unlinkOk)
                /\ unlinkWarned' = SafeDeleteWarnings(disk, AudioFilePath(videoId), unlinkOk, unlinkWarned)
          /\ pc' = "done"
          /\ UNCHANGED error
    /\ UNCHANGED <<toolVars, inputVars, captionVars, downloadVars, calls,
                   ytDlpTranscript, metadata, audioFileBuffer, thrown>>

\* Faulty variant of CatchAudioError: the error is thrown again after the
\* cleanup.
CatchAudioError_Rethrowing ==
    /\ pc = "catch"
    /\ \E unlinkOk \in UnlinkOutcomes(AudioFilePath(videoId)) :
          /\ disk' = SafeDeleteFile(disk, AudioFilePath(videoId), unlinkOk)
          /\ unlinkWarned' = SafeDeleteWarnings(disk, AudioFilePath(videoId), unlinkOk, unlinkWarned)
    /\ thrown' = error
    /\ pc' = "threw"
    /\ UNCHANGED <<toolVars, inputVars, captionVars, downloadVars, calls,
                   ytDlpTranscript, metadata, audioFileBuffer, response,
                   error, result>>

\* the catch block of the audio path
CatchAudioError ==
    /\ pc = "catch"
    /\ \E unlinkOk \in UnlinkOutcomes(AudioFilePath(videoId)) :
          /\ disk' = SafeDeleteFile(disk, AudioFilePath(videoId), unlinkOk)
          /\ unlinkWarned' = SafeDeleteWarnings(disk, AudioFilePath(videoId), unlinkOk, unlinkWarned)
    /\ result' = Obj([transcript |-> Null,
                      method |-> "deepgram",
                      confidence |-> Undefined,
                      speakers |-> Undefined,
                      metadata |-> Undefined])
    /\ pc' = "done"
    /\ UNCHANGED <<toolVars, inputVars, captionVars, downloadVars, calls,
                   ytDlpTranscript, metadata, audioFileBuffer, response, error, thrown>>

\* ------------------------------------------------------------------------
\* Specification
\* ------------------------------------------------------------------------
Next ==
    \/ ExtractTranscript
    \/ YtDlpExits
    \/ ReadVttFile
    \/ CleanVtt
    \/ CaptionFinally
    \/ AfterCaption
    \/ CaptionMetadata
    \/ CheckApiKey
    \/ AudioMetadata
    \/ DownloadData
    \/ AudioStreamWrite
    \/ AudioStreamFinish
    \/ DownloadEnd
    \/ DownloadStreamError
    \/ AudioStreamError
    \/ DownloadTimeout
    \/ AfterDownload
    \/ TranscribeFile
    \/ CatchAudioError

Spec == Init /\ [][Next]_vars

TypeOK ==
    /\ pc \in {"start", "execYtDlp", "readVtt", "cleanVtt", "capFinally",
               "afterCaption", "captionMetadata", "checkApiKey",
               "audioMetadata", "awaitDownload", "awaitTranscribe", "catch",
               "done", "threw"}
    /\ disk \subseteq {TempVttFile(videoId), AudioFilePath(videoId)}
    /\ unlinkWarned \subseteq disk
    /\ written <= delivered
    /\ delivered <= MaxChunks


\* ------------------------------------------------------------------------
\* generateSummary (summarize.ts)
\* ------------------------------------------------------------------------
GeminiApiKeys == {Undefined, Str(""), Str("gm-key")}
Transcripts == {"", "hello world", "a longer transcript"}
Titles == {"", "Title"}
Authors == {"", "Author"}
VideoMetadatas == [title : Titles, author : Authors]
\* the strings response.text() returns
ResponseTexts == {"", "one sentence and five points"}

\* the template literal: title, author and transcript are interpolated
Prompt(transcriptText, videoMetadata) ==
    <<"The video is titled ", videoMetadata.title, " by ", videoMetadata.author,
      "Video Transcript:", transcriptText>>

SummaryInit ==
    /\ sumTranscript \in Transcripts
    /\ sumMetadata \in VideoMetadatas
    /\ geminiApiKey \in GeminiApiKeys
    /\ sumPc = "start"
    /\ prompt = Undefined
    /\ serviceCalls = 0
    /\ summary = Undefined
    /\ sumThrown = "none"

\* Faulty variant of GenerateSummary: the key is not checked and the
\* service is called with whatever the environment holds.
GenerateSummary_Unchecked ==
    /\ sumPc = "start"
    /\ prompt' = Str(Prompt(sumTranscript, sumMetadata))
    /\ serviceCalls' = serviceCalls + 1
    /\ sumPc' = "awaitGenerateContent"
    /\ UNCHANGED summary
    /\ UNCHANGED <<pipelineVars, batchVars, concurrentVars, setupVars, helperVars, sumTranscript, sumMetadata, geminiApiKey, sumThrown>>

\* generateSummary up to its first await: the key check, the client and
\* the prompt, and the call of model.generateContent
GenerateSummary ==
    /\ sumPc = "start"
    /\ IF geminiApiKey \in {Undefined, Str("")}
       THEN /\ summary' = Null
            /\ sumPc' = "returned"
            /\ UNCHANGED <<prompt, serviceCalls>>
       ELSE /\ prompt' = Str(Prompt(sumTranscript, sumMetadata))
            /\ serviceCalls' = serviceCalls + 1
            /\ sumPc' = "awaitGenerateContent"
            /\ UNCHANGED summary
    /\ UNCHANGED <<pipelineVars, batchVars, concurrentVars, setupVars, helperVars, sumTranscript, sumMetadata, geminiApiKey, sumThrown>>

\* model.generateContent settles: a rejection is caught and null returned
GenerateContentSettles ==
    /\ sumPc = "awaitGenerateContent"
    /\ \E outcome \in {"resolved", "rejected"} :
          IF outcome = "resolved"
          THEN /\ sumPc' = "awaitResponse"
               /\ UNCHANGED summary
          ELSE /\ summary' = Null
               /\ sumPc' = "returned"
    /\ UNCHANGED <<pipelineVars, batchVars, concurrentVars, setupVars, helperVars, sumTranscript, sumMetadata, geminiApiKey, prompt,
                   serviceCalls, sumThrown>>

\* await result.response continues and response.text() is called: its
\* string is returned, its exception caught and null returned
ResponseText ==
    /\ sumPc = "awaitResponse"
    /\ \/ \E text \in ResponseTexts : summary' = Str(text)
       \/ summary' = Null
    /\ sumPc' = "returned"
    /\ UNCHANGED <<pipelineVars, batchVars, concurrentVars, setupVars, helperVars, sumTranscript, sumMetadata, geminiApiKey, prompt,
                   serviceCalls, sumThrown>>

SummaryNext ==
    \/ GenerateSummary
    \/ GenerateContentSettles
    \/ ResponseText

\* generateSummary has been called; no other program runs
InitSummary ==
    SummaryInit /\ PipelineIdle /\ SetupIdle /\ HelperIdle /\ ConcurrentIdle /\ BatchIdle

SpecSummary == InitSummary /\ [][SummaryNext]_vars

\* ------------------------------------------------------------------------
\* Setup script: directories and the check of the .env file
\* ------------------------------------------------------------------------
Directories == {"outputs", "outputs/transcripts", "outputs/summaries",
                "outputs/reports", "outputs/samples", "transcripts"}

GEMINI_API_KEY ==
    <<"G", "E", "M", "I", "N", "I", "_", "A", "P", "I", "_", "K", "E", "Y">>

DEEPGRAM_API_KEY ==
    <<"D", "E", "E", "P", "G", "R", "A", "M", "_", "A", "P", "I", "_", "K",
      "E", "Y">>

OPENAI_API_KEY ==
    <<"O", "P", "E", "N", "A", "I", "_", "A", "P", "I", "_", "K", "E", "Y">>

requiredKeys == <<GEMINI_API_KEY>>
optionalKeys == <<DEEPGRAM_API_KEY, OPENAI_API_KEY>>

\* lines a .env file is made of
EnvLines ==
    { GEMINI_API_KEY \o <<"=", "a", "b">>,
      GEMINI_API_KEY \o <<"=">>,
      GEMINI_API_KEY,
      DEEPGRAM_API_KEY \o <<"=", "d">>,
      OPENAI_API_KEY \o <<"=">>,
      <<"#", " ", "k", "e", "y", "s">>,
      <<>> }

\* contents of the .env file: lines joined by line feeds
EnvContents == {Join(lines, <<"\n">>) : lines \in BoundedSeq(EnvLines, MaxEnvLines)}

\* the template written when there is no .env file, its configuration
\* lines left out
sampleEnv ==
    Join(<<GEMINI_API_KEY \o <<"=", "y", "o", "u", "r", "s">>,
           DEEPGRAM_API_KEY \o <<"=", "y", "o", "u", "r", "s">>,
           OPENAI_API_KEY \o <<"=", "y", "o", "u", "r", "s">>>>, <<"\n">>)

\* envContent.match(new RegExp(`${key}=.+`)): the key and the equals sign
\* followed by at least one character that is not a line terminator
MatchesKeyValue(envContent, key) ==
    \E i \in 1..(Len(envContent) - Len(key) - 1) :
        /\ SubSeq(envContent, i, i + Len(key)) = key \o <<"=">>
        /\ envContent[i + Len(key) + 1] \notin {"\n", "\r"}

\* the condition under which a required key is reported as configured
RequiredKeyConfigured(envContent, key) ==
    /\ Includes(envContent, key)
    /\ ~Includes(envContent, key \o <<"=">>)
    /\ MatchesKeyValue(envContent, key)

\* the condition under which an optional key is reported as configured
OptionalKeyConfigured(envContent, key) ==
    /\ Includes(envContent, key)
    /\ MatchesKeyValue(envContent, key)

SetupInit ==
    /\ dirs \in {{}, {"transcripts"}, Directories}
    /\ envFile \in {Undefined} \cup {Str(content) : content \in EnvContents}
    /\ setupPc = "directories"
    /\ keyReport = [key \in Range(requiredKeys) \cup Range(optionalKeys) |-> "unchecked"]

\* directories.forEach: every missing directory is created
CreateDirectories ==
    /\ setupPc = "directories"
    /\ dirs' = dirs \cup Directories
    /\ setupPc' = "envFile"
    /\ UNCHANGED <<pipelineVars, batchVars, concurrentVars, summaryVars, helperVars, envFile, keyReport>>

\* fs.existsSync('.env'): the file is read, or the template written
CheckEnvFile ==
    /\ setupPc = "envFile"
    /\ IF envFile # Undefined
       THEN /\ setupPc' = "requiredKeys"
            /\ UNCHANGED envFile
       ELSE /\ envFile' = Str(sampleEnv)
            /\ setupPc' = "packageJson"
    /\ UNCHANGED <<pipelineVars, batchVars, concurrentVars, summaryVars, helperVars, dirs, keyReport>>

\* requiredKeys.forEach
CheckRequiredKeys ==
    /\ setupPc = "requiredKeys"
    /\ keyReport' = [key \in DOMAIN keyReport |->
                        IF key \in Range(requiredKeys)
                        THEN IF RequiredKeyConfigured(envFile[2], key)
                             THEN "is configured"
                             ELSE "needs to be configured"
                        ELSE keyReport[key]]
    /\ setupPc' = "optionalKeys"
    /\ UNCHANGED <<pipelineVars, batchVars, concurrentVars, summaryVars, helperVars, dirs, envFile>>

\* optionalKeys.forEach
CheckOptionalKeys ==
    /\ setupPc = "optionalKeys"
    /\ keyReport' = [key \in DOMAIN keyReport |->
                        IF key \in Range(optionalKeys)
                        THEN IF OptionalKeyConfigured(envFile[2], key)
                             THEN "is configured (optional)"
                             ELSE "not configured (optional)"
                        ELSE keyReport[key]]
    /\ setupPc' = "packageJson"
    /\ UNCHANGED <<pipelineVars, batchVars, concurrentVars, summaryVars, helperVars, dirs, envFile>>

SetupNext ==
    \/ CreateDirectories
    \/ CheckEnvFile
    \/ CheckRequiredKeys
    \/ CheckOptionalKeys

\* the setup script has been started; no other program runs
InitSetup ==
    SetupInit /\ PipelineIdle /\ SummaryIdle /\ HelperIdle /\ ConcurrentIdle /\ BatchIdle

SpecSetup == InitSetup /\ [][SetupNext]_vars

\* ------------------------------------------------------------------------
\* Manual transcript helper: extractVideoId
\* ------------------------------------------------------------------------
WatchPrefix ==
    <<"y", "o", "u", "t", "u", "b", "e", ".", "c", "o", "m", "/", "w", "a",
      "t", "c", "h", "?", "v", "=">>

ShortPrefix ==
    <<"y", "o", "u", "t", "u", ".", "b", "e", "/">>

EmbedPrefix ==
    <<"y", "o", "u", "t", "u", "b", "e", ".", "c", "o", "m", "/", "e", "m",
      "b", "e", "d", "/">>

VPrefix ==
    <<"y", "o", "u", "t", "u", "b", "e", ".", "c", "o", "m", "/", "v", "/">>

\* the alternatives of the two patterns; at one position of a string at
\* most one of them matches
patterns == <<{WatchPrefix, ShortPrefix, EmbedPrefix}, {VPrefix}>>

\* the characters the capture group [^&\n?#]+ stops at
IdStops == {"&", "\n", "?", "#"}

\* the longest prefix of s without a stop character
RECURSIVE TakeId(_)
TakeId(s) ==
    IF s = <<>> \/ Head(s) \in IdStops THEN <<>>
    ELSE <<Head(s)>> \o TakeId(Tail(s))

\* the alternative matches at position i: it is there and at least one
\* character of the capture group follows
MatchesAt(url, i, prefix) ==
    /\ i + Len(prefix) <= Len(url)
    /\ SubSeq(url, i, i + Len(prefix) - 1) = prefix
    /\ url[i + Len(prefix)] \notin IdStops

\* url.match(pattern): the leftmost match; its capture group, or Null
Match(url, pattern) ==
    LET hits == {i \in 1..Len(url) : \E prefix \in pattern : MatchesAt(url, i, prefix)}
    IN  IF hits = {} THEN Null
        ELSE LET i == CHOOSE h \in hits : \A other \in hits : h <= other
                 prefix == CHOOSE p \in pattern : MatchesAt(url, i, p)
             IN  Str(TakeId(SubSeq(url, i + Len(prefix), Len(url))))

\* Faulty variant of ExtractVideoId: a URL that matches no pattern is
\* taken as the identifier itself.
ExtractVideoId_FallingBackToUrl(url) ==
    IF Match(url, patterns[1]) # Null THEN Match(url, patterns[1])
    ELSE IF Match(url, patterns[2]) # Null THEN Match(url, patterns[2])
    ELSE Str(url)

\* extractVideoId: the first pattern that matches gives the identifier
ExtractVideoId(url) ==
    IF Match(url, patterns[1]) # Null THEN Match(url, patterns[1])
    ELSE IF Match(url, patterns[2]) # Null THEN Match(url, patterns[2])
    ELSE Null

\* ------------------------------------------------------------------------
\* Manual transcript helper: runInteractiveHelper
\* ------------------------------------------------------------------------
\* what the user types at the prompt for the URL
UrlAnswers ==
    { <<>>,
      <<" ", "y", "o", "u", "t", "u", ".", "b", "e", "/", "a", "b", " ">>,
      <<"y", "o", "u", "t", "u", "b", "e", ".", "c", "o", "m", "/", "w", "a", "t", "c", "h", "?", "v", "=", "a", "b", "&", "t", "=", "1">>,
      <<"y", "o", "u", "t", "u", "b", "e", ".", "c", "o", "m", "/", "e", "m", "b", "e", "d", "/", "a", "b", "?", "x">>,
      <<"y", "o", "u", "t", "u", "b", "e", ".", "c", "o", "m", "/", "v", "/", "a", "b", "#", "t">>,
      <<"v", "i", "m", "e", "o", ".", "c", "o", "m", "/", "a", "b">>,
      <<"y", "o", "u", "t", "u", "b", "e", ".", "c", "o", "m", "/", "w", "a", "t", "c", "h", "?", "v", "=">>,
      <<"y", "o", "u", "t", "u", ".", "b", "e", "/", "?", "x">>,
      <<"y", "o", "u", "t", "u", "b", "e", ".", "c", "o", "m", "/", "w", "a", "t", "c", "h", "?", "v", "=", "&", "y", "o", "u", "t", "u", ".", "b", "e", "/", "c", "d">> }

\* what the user types at the prompt for the title
TitleAnswers == {<<>>, <<"T", "1">>}

DONE == <<"D", "O", "N", "E">>
done == <<"d", "o", "n", "e">>

\* what the user types at a prompt for a line of the transcript
LineAnswers ==
    { <<>>, DONE, done, <<"D", "o", "n", "e">>, <<"h", "i">>, <<" ">>,
      <<" ", "d", "o", "n", "e">> }

\* what the user types when asked whether to save anyway
ProceedAnswers == {<<"y">>, <<"Y">>, <<"y", "e", "s">>, <<"n">>, <<>>}

UpperCase == <<"D", "E", "N", "O", "S", "T", "Y">>
LowerCase == <<"d", "e", "n", "o", "s", "t", "y">>

\* String.prototype.toLowerCase, on the letters of the answers
RECURSIVE ToLowerCase(_)
ToLowerCase(s) ==
    IF s = <<>> THEN <<>>
    ELSE LET c == Head(s)
             lower == IF \E i \in 1..Len(UpperCase) : UpperCase[i] = c
                      THEN LowerCase[CHOOSE i \in 1..Len(UpperCase) : UpperCase[i] = c]
                      ELSE c
         IN  <<lower>> \o ToLowerCase(Tail(s))

\* askQuestion resolves with the answer trimmed
AskQuestion(answer) == Trim(answer)

\* cleanTranscriptText: the cleaned text, kept apart from the raw one; its
\* regular expressions are not followed
CleanTranscriptText(rawText) == <<"cleaned", rawText>>

\* the file saveTranscript writes: its name is made of the identifier and
\* the title, or "manual" without a title
SavedFile(id, cleaned, fileTitle) ==
    [videoId |-> id,
     label |-> IF fileTitle = <<>> THEN <<"m", "a", "n", "u", "a", "l">> ELSE fileTitle,
     content |-> cleaned]

HelperInit ==
    /\ rl = "open"
    /\ hPc = "instructions"
    /\ videoUrl = Undefined
    /\ helperVideoId = Undefined
    /\ title = Undefined
    /\ transcript = <<>>
    /\ lineCount = 0
    /\ emptyLineCount = 0
    /\ answeredLines = <<>>
    /\ cleanedTranscript = Undefined
    /\ saved = {}
    /\ helperError = "none"

\* the user presses Enter after the instructions
AnswerInstructions ==
    /\ hPc = "instructions"
    /\ rl = "open"
    /\ hPc' = "askUrl"
    /\ UNCHANGED <<pipelineVars, batchVars, concurrentVars, summaryVars, setupVars, rl, videoUrl, helperVideoId,
                   title, transcript, lineCount, emptyLineCount, answeredLines,
                   cleanedTranscript, saved, helperError>>

\* the answer to the prompt for the URL: without a URL, or without an
\* identifier in it, the helper returns through its finally block
AnswerUrl ==
    /\ hPc = "askUrl"
    /\ rl = "open"
    /\ \E answer \in UrlAnswers :
          /\ videoUrl' = Str(AskQuestion(answer))
          /\ IF AskQuestion(answer) = <<>>
             THEN /\ rl' = "closed"
                  /\ hPc' = "returned"
                  /\ UNCHANGED helperVideoId
             ELSE /\ helperVideoId' = ExtractVideoId(AskQuestion(answer))
                  /\ IF helperVideoId' = Null
                     THEN /\ rl' = "closed"
                          /\ hPc' = "returned"
                     ELSE /\ hPc' = "askTitle"
                          /\ UNCHANGED rl
    /\ UNCHANGED <<pipelineVars, batchVars, concurrentVars, summaryVars, setupVars, title, transcript, lineCount,
                   emptyLineCount, answeredLines, cleanedTranscript, saved, helperError>>

\* the answer to the prompt for the title; the loop starts and asks for
\* line 1
AnswerTitle ==
    /\ hPc = "askTitle"
    /\ rl = "open"
    /\ \E answer \in TitleAnswers : title' = Str(AskQuestion(answer))
    /\ transcript' = <<>>
    /\ lineCount' = 1
    /\ emptyLineCount' = 0
    /\ hPc' = "askLine"
    /\ UNCHANGED <<pipelineVars, batchVars, concurrentVars, summaryVars, setupVars, rl, videoUrl, helperVideoId,
                   answeredLines, cleanedTranscript, saved, helperError>>

\* Faulty variant of AnswerLine: a non-empty line does not reset the count
\* of empty lines.
AnswerLine_NeverResetting ==
    /\ hPc = "askLine"
    /\ rl = "open"
    /\ lineCount <= MaxInputLines
    /\ \E answer \in LineAnswers :
          LET line == AskQuestion(answer)
          IN  /\ answeredLines' = Append(answeredLines, line)
              /\ IF line = DONE \/ line = done
                 THEN /\ hPc' = "afterLoop"
                      /\ UNCHANGED <<transcript, lineCount, emptyLineCount>>
                 ELSE /\ emptyLineCount' = IF line = <<>> THEN emptyLineCount + 1
                                           ELSE emptyLineCount
                      /\ IF emptyLineCount' >= 2
                         THEN /\ hPc' = "afterLoop"
                              /\ UNCHANGED <<transcript, lineCount>>
                         ELSE /\ transcript' = transcript \o line \o <<"\n">>
                              /\ lineCount' = lineCount + 1
                              /\ hPc' = "askLine"
    /\ UNCHANGED <<pipelineVars, batchVars, concurrentVars, summaryVars, setupVars, rl, videoUrl, helperVideoId,
                   title, cleanedTranscript, saved, helperError>>

\* the answer to the prompt for a line: one iteration of the loop, up to
\* the next prompt or the break
AnswerLine ==
    /\ hPc = "askLine"
    /\ rl = "open"
    /\ lineCount <= MaxInputLines
    /\ \E answer \in LineAnswers :
          LET line == AskQuestion(answer)
          IN  /\ answeredLines' = Append(answeredLines, line)
              /\ IF line = DONE \/ line = done
                 THEN /\ hPc' = "afterLoop"
                      /\ UNCHANGED <<transcript, lineCount, emptyLineCount>>
                 ELSE /\ emptyLineCount' = IF line = <<>> THEN emptyLineCount + 1 ELSE 0
                      /\ IF emptyLineCount' >= 2
                         THEN /\ hPc' = "afterLoop"
                              /\ UNCHANGED <<transcript, lineCount>>
                         ELSE /\ transcript' = transcript \o line \o <<"\n">>
                              /\ lineCount' = lineCount + 1
                              /\ hPc' = "askLine"
    /\ UNCHANGED <<pipelineVars, batchVars, concurrentVars, summaryVars, setupVars, rl, videoUrl, helperVideoId,
                   title, cleanedTranscript, saved, helperError>>

\* after the loop: without content the helper returns; the transcript is
\* cleaned and validated, and a transcript with issues needs the consent
\* of the user
ProcessTranscript ==
    /\ hPc = "afterLoop"
    /\ IF Trim(transcript) = <<>>
       THEN /\ rl' = "closed"
            /\ hPc' = "returned"
            /\ UNCHANGED cleanedTranscript
       ELSE /\ cleanedTranscript' = CleanTranscriptText(transcript)
            /\ \E isValid \in BOOLEAN :
                  hPc' = IF isValid THEN "save" ELSE "askProceed"
            /\ UNCHANGED rl
    /\ UNCHANGED <<pipelineVars, batchVars, concurrentVars, summaryVars, setupVars, videoUrl, helperVideoId, title,
                   transcript, lineCount, emptyLineCount, answeredLines, saved, helperError>>

\* the answer to "Do you want to save anyway?"
AnswerProceed ==
    /\ hPc = "askProceed"
    /\ rl = "open"
    /\ \E answer \in ProceedAnswers :
          LET proceed == AskQuestion(answer)
          IN  IF ToLowerCase(proceed) # <<"y">> /\ ToLowerCase(proceed) # <<"y", "e", "s">>
              THEN /\ rl' = "closed"
                   /\ hPc' = "returned"
              ELSE /\ hPc' = "save"
                   /\ UNCHANGED rl
    /\ UNCHANGED <<pipelineVars, batchVars, concurrentVars, summaryVars, setupVars, videoUrl, helperVideoId, title,
                   transcript, lineCount, emptyLineCount, answeredLines, cleanedTranscript,
                   saved, helperError>>

\* saveTranscript writes the file, or throws into the catch block; the
\* finally block closes the readline interface
SaveTranscript ==
    /\ hPc = "save"
    /\ \E written_ok \in BOOLEAN :
          IF written_ok
          THEN /\ saved' = saved \cup {SavedFile(helperVideoId[2], cleanedTranscript, title[2])}
               /\ UNCHANGED helperError
          ELSE /\ helperError' = "logged"
               /\ UNCHANGED saved
    /\ rl' = "closed"
    /\ hPc' = "returned"
    /\ UNCHANGED <<pipelineVars, batchVars, concurrentVars, summaryVars, setupVars, videoUrl, helperVideoId, title,
                   transcript, lineCount, emptyLineCount, answeredLines, cleanedTranscript>>

HelperNext ==
    \/ AnswerInstructions
    \/ AnswerUrl
    \/ AnswerTitle
    \/ AnswerLine
    \/ ProcessTranscript
    \/ AnswerProceed
    \/ SaveTranscript
    \/ ExtractTranscript

\* the helper has been started and extractTranscript called
InitHelper ==
    /\ HelperInit /\ SummaryIdle /\ SetupIdle /\ ConcurrentIdle /\ BatchIdle
    /\ youtubeUrl \in Urls /\ videoId \in VideoIds /\ deepgramApiKey = Undefined
    /\ PipelineStart

\* the interactive helper, and extractTranscript up to the validation of
\* its arguments: the two places that take a URL from the caller
SpecHelper == InitHelper /\ [][HelperNext]_vars

\* ------------------------------------------------------------------------
\* Two invocations of extractTranscript in one process, by their effects on
\* the files of the transcripts directory
\* ------------------------------------------------------------------------
Invocations == {1, 2}
ConcurrentVideoIds == {"abc", "xyz"}
\* what yt-dlp writes for a video: nothing, a subtitle file without text,
\* or one with captions
SubtitleKinds == {"none", "empty", "captions"}

\* the paths of the files that exist
Paths(files) == {file.path : file \in files}
\* a file is created, or truncated and written again
WriteFile(files, filePath, data) ==
    {file \in files : file.path # filePath} \cup {[path |-> filePath, data |-> data]}
\* the data of the file at the path
ReadFile(files, filePath) == (CHOOSE file \in files : file.path = filePath).data
\* the files after safeDeleteFile(filePath)
DeleteFile(files, filePath, unlinkOk) ==
    {file \in files : file.path \in SafeDeleteFile(Paths(files), filePath, unlinkOk)}

ConcurrentInit ==
    /\ sharedFiles = {}
    /\ \E ids \in [Invocations -> ConcurrentVideoIds] :
          /\ ids[1] # ids[2]
          /\ invocation = [i \in Invocations |->
                              [videoId |-> ids[i],
                               pc |-> "start",
                               ytDlpWrote |-> "none",
                               audioFailed |-> FALSE,
                               vttContent |-> Undefined,
                               ytDlpTranscript |-> Undefined,
                               audioFileBuffer |-> Undefined,
                               result |-> Undefined]]

\* extractTranscript(i) runs up to the await of the yt-dlp command
ConcExtractTranscript(i) ==
    /\ invocation[i].pc = "start"
    /\ invocation' = [invocation EXCEPT ![i].pc = "execYtDlp"]
    /\ UNCHANGED <<pipelineVars, batchVars, summaryVars, setupVars, helperVars, sharedFiles>>

\* yt-dlp exits, having written the subtitle file of the video or not
ConcYtDlpExits(i) ==
    /\ invocation[i].pc = "execYtDlp"
    /\ \E kind \in SubtitleKinds :
          /\ sharedFiles' =
                IF kind = "none" THEN sharedFiles
                ELSE WriteFile(sharedFiles, TempVttFile(invocation[i].videoId),
                               <<kind, invocation[i].videoId>>)
          /\ invocation' = [invocation EXCEPT ![i].pc = "readVtt", ![i].ytDlpWrote = kind]
    /\ UNCHANGED <<pipelineVars, batchVars, summaryVars, setupVars, helperVars>>

\* fsPromises.readFile(tempVttFile) and the cleaning: a transcript when
\* the file read has captions, null otherwise
ConcReadVttFile(i) ==
    /\ invocation[i].pc = "readVtt"
    /\ LET tempVttFile == TempVttFile(invocation[i].videoId)
       IN  IF tempVttFile \in Paths(sharedFiles)
           THEN LET content == ReadFile(sharedFiles, tempVttFile)
                IN  invocation' = [invocation EXCEPT
                        ![i].pc = "capFinally",
                        ![i].vttContent = Obj(content),
                        ![i].ytDlpTranscript =
                            IF content[1] = "captions" THEN Obj(content) ELSE Null]
           ELSE invocation' = [invocation EXCEPT
                        ![i].pc = "capFinally",
                        ![i].ytDlpTranscript = Null]
    /\ UNCHANGED <<pipelineVars, batchVars, summaryVars, setupVars, helperVars, sharedFiles>>

\* the finally block deletes the subtitle file; with a transcript the
\* caption result is returned, without one the audio path is entered
ConcCaptionFinally(i) ==
    /\ invocation[i].pc = "capFinally"
    /\ \E unlinkOk \in BOOLEAN :
          sharedFiles' = DeleteFile(sharedFiles, TempVttFile(invocation[i].videoId), unlinkOk)
    /\ IF invocation[i].ytDlpTranscript # Null
       THEN invocation' = [invocation EXCEPT
                ![i].pc = "done",
                ![i].result = [transcript |-> invocation[i].ytDlpTranscript,
                               method |-> "youtube-captions-ydlp"]]
       ELSE invocation' = [invocation EXCEPT ![i].pc = "audioMetadata"]
    /\ UNCHANGED <<pipelineVars, batchVars, summaryVars, setupVars, helperVars>>

\* metadata and format; downloadAudio creates the audio file, which the
\* download fills
ConcDownloadAudio(i) ==
    /\ invocation[i].pc = "audioMetadata"
    /\ \E ok \in BOOLEAN :
          IF ok
          THEN /\ sharedFiles' = WriteFile(sharedFiles, AudioFilePath(invocation[i].videoId),
                                           <<"audio", invocation[i].videoId>>)
               /\ invocation' = [invocation EXCEPT ![i].pc = "awaitDownload"]
          ELSE /\ invocation' = [invocation EXCEPT ![i].pc = "catch", ![i].audioFailed = TRUE]
               /\ UNCHANGED sharedFiles
    /\ UNCHANGED <<pipelineVars, batchVars, summaryVars, setupVars, helperVars>>

\* the download settles; the file is read and transcribed, deleted, and
\* the result returned; a failure of the download, of the read or of
\* Deepgram reaches the catch block
ConcTranscribeFile(i) ==
    /\ invocation[i].pc = "awaitDownload"
    /\ LET audioFilePath == AudioFilePath(invocation[i].videoId)
       IN  \E outcome \in {"ok", "downloadFailed", "deepgramFailed"} :
              IF outcome = "ok" /\ audioFilePath \in Paths(sharedFiles)
              THEN /\ \E unlinkOk \in BOOLEAN :
                         sharedFiles' = DeleteFile(sharedFiles, audioFilePath, unlinkOk)
                   /\ invocation' = [invocation EXCEPT
                         ![i].pc = "done",
                         ![i].audioFileBuffer = Obj(ReadFile(sharedFiles, audioFilePath)),
                         ![i].result = [transcript |-> Obj(ReadFile(sharedFiles, audioFilePath)),
                                        method |-> "deepgram"]]
              ELSE /\ invocation' = [invocation EXCEPT
                         ![i].pc = "catch",
                         ![i].audioFailed = (outcome # "ok")]
                   /\ UNCHANGED sharedFiles
    /\ UNCHANGED <<pipelineVars, batchVars, summaryVars, setupVars, helperVars>>

\* the catch block of the audio path deletes the audio file and returns
\* the null result
ConcCatchAudioError(i) ==
    /\ invocation[i].pc = "catch"
    /\ \E unlinkOk \in BOOLEAN :
          sharedFiles' = DeleteFile(sharedFiles, AudioFilePath(invocation[i].videoId), unlinkOk)
    /\ invocation' = [invocation EXCEPT
          ![i].pc = "done",
          ![i].result = [transcript |-> Null, method |-> "deepgram"]]
    /\ UNCHANGED <<pipelineVars, batchVars, summaryVars, setupVars, helperVars>>

ConcurrentNext ==
    \E i \in Invocations :
        \/ ConcExtractTranscript(i)
        \/ ConcYtDlpExits(i)
        \/ ConcReadVttFile(i)
        \/ ConcCaptionFinally(i)
        \/ ConcDownloadAudio(i)
        \/ ConcTranscribeFile(i)
        \/ ConcCatchAudioError(i)

\* two invocations have been started; no other program runs
InitConcurrent ==
    ConcurrentInit /\ PipelineIdle /\ SummaryIdle /\ SetupIdle /\ HelperIdle /\ BatchIdle

SpecConcurrent == InitConcurrent /\ [][ConcurrentNext]_vars

\* ------------------------------------------------------------------------
\* Manual transcript helper: main and runBatchHelper
\* ------------------------------------------------------------------------
\* process.argv.slice(2), by the option main looks for
Args == {"", "--batch", "--help"}

TxtSuffix == <<".", "t", "x", "t">>
CleanedSuffix == <<"_", "c", "l", "e", "a", "n", "e", "d", ".", "t", "x", "t">>
FileA == <<"a", ".", "t", "x", "t">>
FileB == <<"b", ".", "t", "x", "t">>
FileNotes == <<"n", ".", "m", "d">>

\* what fs.readdirSync(transcriptsDir) returns
DirListings ==
    { <<>>, <<FileNotes>>, <<FileA>>, <<FileA, FileNotes>>, <<FileA, FileB>>,
      <<FileA, FileB, FileNotes>> }

\* String.prototype.endsWith
EndsWith(s, suffix) ==
    Len(s) >= Len(suffix) /\ SubSeq(s, Len(s) - Len(suffix) + 1, Len(s)) = suffix

IsTxtFile(f) == EndsWith(f, TxtSuffix)

\* String.prototype.replace with a string pattern: the first occurrence
ReplaceFirst(s, pattern, replacement) ==
    LET hits == {i \in 1..(Len(s) - Len(pattern) + 1) :
                    SubSeq(s, i, i + Len(pattern) - 1) = pattern}
    IN  IF hits = {} THEN s
        ELSE LET i == CHOOSE h \in hits : \A other \in hits : h <= other
             IN  SubSeq(s, 1, i - 1) \o replacement
                     \o SubSeq(s, i + Len(pattern), Len(s))

\* the local variables of runInteractiveHelper
helperLocalVars == <<videoUrl, helperVideoId, title, transcript, lineCount,
                     emptyLineCount, answeredLines, cleanedTranscript, saved,
                     helperError>>

\* the module has been loaded (the readline interface created) and main
\* called
InitMain ==
    /\ PipelineIdle /\ SummaryIdle /\ SetupIdle /\ ConcurrentIdle
    /\ rl = "open"
    /\ hPc = "idle"
    /\ videoUrl = Undefined
    /\ helperVideoId = Undefined
    /\ title = Undefined
    /\ transcript = <<>>
    /\ lineCount = 0
    /\ emptyLineCount = 0
    /\ answeredLines = <<>>
    /\ cleanedTranscript = Undefined
    /\ saved = {}
    /\ helperError = "none"
    /\ args \in Args
    /\ mainPc = "start"
    /\ bPc = "idle"
    /\ dirEntries \in DirListings
    /\ batchFiles = <<>>
    /\ processed = 0
    /\ errors = 0
    /\ cleanedFiles = {}

\* main: the batch helper, the help text, or the interactive helper
Main ==
    /\ mainPc = "start"
    /\ IF args = "--batch"
       THEN /\ bPc' = "start"
            /\ mainPc' = "awaitHelper"
            /\ UNCHANGED hPc
       ELSE IF args = "--help"
       THEN /\ mainPc' = "returned"
            /\ UNCHANGED <<bPc, hPc>>
       ELSE /\ hPc' = "instructions"
            /\ mainPc' = "awaitHelper"
            /\ UNCHANGED bPc
    /\ UNCHANGED <<pipelineVars, summaryVars, setupVars, concurrentVars, rl,
                   helperLocalVars, args, dirEntries, batchFiles, processed,
                   errors, cleanedFiles>>

\* the helper main awaits has returned
MainReturns ==
    /\ mainPc = "awaitHelper"
    /\ hPc = "returned" \/ bPc = "returned"
    /\ mainPc' = "returned"
    /\ UNCHANGED <<pipelineVars, summaryVars, setupVars, concurrentVars, helperVars,
                   args, bPc, dirEntries, batchFiles, processed, errors,
                   cleanedFiles>>

\* runBatchHelper up to its prompt: without .txt files it returns
RunBatchHelper ==
    /\ bPc = "start"
    /\ batchFiles' = SelectSeq(dirEntries, IsTxtFile)
    /\ bPc' = IF Len(batchFiles') = 0 THEN "returned" ELSE "askProceed"
    /\ UNCHANGED <<pipelineVars, summaryVars, setupVars, concurrentVars, helperVars,
                   args, mainPc, dirEntries, processed, errors, cleanedFiles>>

\* the answer to "Process all files?": declined, runBatchHelper returns;
\* otherwise every file is read, cleaned and written, or counted as an
\* error, and the readline interface is closed
BatchAnswerProceed ==
    /\ bPc = "askProceed"
    /\ rl = "open"
    /\ \E answer \in ProceedAnswers :
          LET proceed == AskQuestion(answer)
          IN  IF ToLowerCase(proceed) # <<"y">> /\ ToLowerCase(proceed) # <<"y", "e", "s">>
              THEN /\ bPc' = "returned"
                   /\ UNCHANGED <<rl, processed, errors, cleanedFiles>>
              ELSE \E fileOk \in [1..Len(batchFiles) -> BOOLEAN] :
                      /\ processed' = Cardinality({i \in 1..Len(batchFiles) : fileOk[i]})
                      /\ errors' = Cardinality({i \in 1..Len(batchFiles) : ~fileOk[i]})
                      /\ cleanedFiles' =
                            {ReplaceFirst(batchFiles[i], TxtSuffix, CleanedSuffix) :
                                i \in {j \in 1..Len(batchFiles) : fileOk[j]}}
                      /\ rl' = "closed"
                      /\ bPc' = "returned"
    /\ UNCHANGED <<pipelineVars, summaryVars, setupVars, concurrentVars, hPc,
                   helperLocalVars, args, mainPc, dirEntries, batchFiles>>

MainNext ==
    \/ Main
    \/ MainReturns
    \/ AnswerInstructions
    \/ AnswerUrl
    \/ AnswerTitle
    \/ AnswerLine
    \/ ProcessTranscript
    \/ AnswerProceed
    \/ SaveTranscript
    \/ RunBatchHelper
    \/ BatchAnswerProceed

SpecMain == InitMain /\ [][MainNext]_vars

\* ------------------------------------------------------------------------
\* Properties
\* ------------------------------------------------------------------------
CaptionPcs == {"execYtDlp", "readVtt", "cleanVtt", "capFinally"}
AudioPcs == {"audioMetadata", "awaitDownload", "awaitTranscribe", "catch"}
AudioCalls == {"getInfo:audio", "chooseFormat", "downloadAudio", "transcribeFile"}
Returned == pc \in {"done", "threw"}
MadeCalls == Range(calls)

\* C1: the caption attempt is the first external call and has returned
\* before any step of the audio path; when it returned a non-empty
\* transcript no audio metadata fetch, download or transcription call is
\* ever made, and the returned result carries the method of the one path
\* that produced it.
C1_CaptionsFirstAndExclusive ==
    /\ calls # <<>> => calls[1] = "yt-dlp"
    /\ \A i \in 2..Len(calls) : calls[i] # "yt-dlp"
    /\ MadeCalls \cap AudioCalls # {} =>
          /\ pc \notin CaptionPcs \cup {"start", "afterCaption"}
          /\ ytDlpTranscript = Null
    /\ IsTruthy(ytDlpTranscript) => MadeCalls \cap AudioCalls = {}
    /\ pc = "done" =>
          /\ result[2].method \in {"youtube-captions-ydlp", "deepgram"}
          /\ result[2].method = "youtube-captions-ydlp" <=>
                (IsTruthy(ytDlpTranscript) /\ result[2].transcript = ytDlpTranscript)
          /\ result[2].method = "deepgram" <=> "getInfo:audio" \in MadeCalls

C1_Witness ==
    /\ pc = "done"
    /\ IsTruthy(ytDlpTranscript)
    /\ result[2].method = "youtube-captions-ydlp"
    /\ calls = <<"yt-dlp", "getInfo:captions">>

\* C2 as stated: when extractTranscript has returned or thrown, neither
\* temporary file exists.
C2_NoTempFileRemains == Returned => disk = {}

\* C2 as amended: when extractTranscript has returned or thrown, a temporary
\* file exists only if safeDeleteFile failed to unlink it and logged the
\* warning.
C2_TempFileRemainsOnlyIfUnlinkFailed ==
    Returned => disk \subseteq unlinkWarned

C2_Witness ==
    /\ pc = "done"
    /\ error = "rejected:downloadStream"
    /\ disk = {}
    /\ "downloadAudio" \in MadeCalls

\* C3: a failure of the audio path after the key check (metadata fetch,
\* no audio format, download stream error, write stream error, timeout,
\* Deepgram error) is never thrown: the invocation is in its catch block or
\* has returned the result with a null transcript.
C3_AudioFailureReturnsNull ==
    error # "none" =>
        /\ thrown = "none"
        /\ pc \in {"catch", "done"}
        /\ pc = "done" =>
              result = Obj([transcript |-> Null, method |-> "deepgram",
                            confidence |-> Undefined, speakers |-> Undefined,
                            metadata |-> Undefined])

C3_Witness ==
    /\ pc = "done"
    /\ error = "deepgramError"
    /\ result[2].transcript = Null

\* C4: once the caption step has returned null and the key is absent (or
\* empty), extractTranscript throws the configuration error having made no
\* call but the yt-dlp command.
C4_MissingKeyFailsBeforeAnyCall ==
    (/\ ytDlpTranscript = Null
     /\ deepgramApiKey \in {Undefined, Str("")}
     /\ pc \notin {"afterCaption", "checkApiKey"}) =>
        /\ pc = "threw"
        /\ thrown = "config"
        /\ calls = <<"yt-dlp">>
        /\ result = Undefined

C4_Witness ==
    /\ pc = "threw"
    /\ thrown = "config"
    /\ deepgramApiKey = Undefined
    /\ ytDlpTranscript = Null

\* C5 as stated: when the timer fires before the download has settled, both
\* streams are destroyed, the download fails with the timeout error, and
\* after the return no audio file exists.
C5_TimeoutLeavesNoAudioFile ==
    dlPromise = "rejected:timeout" =>
        /\ downloadStream = "destroyed"
        /\ audioStream = "destroyed"
        /\ pc \in {"awaitDownload", "catch", "done"}
        /\ pc \in {"catch", "done"} => error = "rejected:timeout"
        /\ pc = "done" =>
              /\ result[2].transcript = Null
              /\ AudioFilePath(videoId) \notin disk

\* C5 as amended: as stated, except that after the return the audio file
\* exists only if safeDeleteFile failed to unlink it.
C5_TimeoutAbortsAndCleansUp ==
    dlPromise = "rejected:timeout" =>
        /\ timeout = "fired"
        /\ downloadStream = "destroyed"
        /\ audioStream = "destroyed"
        /\ pc \in {"awaitDownload", "catch", "done"}
        /\ pc \in {"catch", "done"} => error = "rejected:timeout"
        /\ "transcribeFile" \notin MadeCalls
        /\ pc = "done" =>
              /\ result[2].transcript = Null
              /\ AudioFilePath(videoId) \in disk => AudioFilePath(videoId) \in unlinkWarned

C5_Witness ==
    /\ pc = "done"
    /\ dlPromise = "rejected:timeout"
    /\ delivered > 0
    /\ AudioFilePath(videoId) \notin disk


\* C6: whatever makes the caption step fail (yt-dlp missing or exiting with
\* an error, subtitle file missing or unreadable, empty paragraph), the
\* step returns null, nothing is thrown for it, and extractTranscript goes
\* on to the audio path, whose first step is the key check.
C6_CaptionFailureAbsorbed ==
    capFailure # "none" =>
        /\ pc \in CaptionPcs => (pc = "capFinally" /\ capReturn = Null)
        /\ pc \notin CaptionPcs =>
              /\ ytDlpTranscript = Null
              /\ pc \in {"afterCaption", "checkApiKey", "threw", "done"} \cup AudioPcs
              /\ pc = "threw" => thrown = "config"
              /\ pc = "done" => result[2].method = "deepgram"
              /\ "getInfo:captions" \notin MadeCalls

C6_Witness ==
    /\ capFailure = "commandNotFound"
    /\ pc = "awaitDownload"
    /\ ytDlpTranscript = Null

\* a cue-timing line
IsCueTimingLine(line) == Includes(line, <<"-", "-", ">">>)

\* a cue-index line: a number, possibly surrounded by blanks
IsCueIndexLine(line) ==
    \E i \in 1..Len(line) : \E j \in i..Len(line) :
        /\ \A k \in 1..Len(line) :
              IF k \in i..j THEN line[k] \in Digits ELSE line[k] \in WhiteSpace

\* a line made of tags <...> and blanks only, with at least one tag
RECURSIVE IsTagsAndBlanks(_)
IsTagsAndBlanks(s) ==
    \/ s = <<>>
    \/ Head(s) \in WhiteSpace /\ IsTagsAndBlanks(Tail(s))
    \/ /\ Head(s) = "<"
       /\ \E k \in 2..Len(s) :
             /\ s[k] = ">"
             /\ \A m \in 2..(k - 1) : s[m] # ">"
             /\ IsTagsAndBlanks(SubSeq(s, k + 1, Len(s)))

IsMarkupOnlyLine(line) == IsTagsAndBlanks(line) /\ "<" \in Range(line)

IsCueOrMarkupFile(content) ==
    \A line \in Range(SplitLines(content)) :
        IsCueTimingLine(line) \/ IsCueIndexLine(line) \/ IsMarkupOnlyLine(line)

\* the subtitle file has been read and cleaned
VttCleaned == pc = "capFinally" /\ capFailure \in {"none", "emptyParagraph"}

\* C7: a subtitle file all of whose lines are cue-timing, cue-index or
\* markup-only lines is cleaned to no text line and the empty paragraph,
\* the caption step returns null for it, and an invocation whose caption
\* step ended on an empty paragraph continues on the audio path.
C7_CueAndMarkupOnlyFallsBack ==
    /\ (VttCleaned /\ IsCueOrMarkupFile(vttContent)) =>
          /\ textLines = <<>>
          /\ fullParagraph = <<>>
          /\ capReturn = Null
          /\ capFailure = "emptyParagraph"
    /\ (capFailure = "emptyParagraph" /\ pc \notin CaptionPcs) =>
          /\ ytDlpTranscript = Null
          /\ pc \in {"afterCaption", "checkApiKey", "threw", "done"} \cup AudioPcs
          /\ pc = "done" => result[2].method = "deepgram"
          /\ "getInfo:captions" \notin MadeCalls

C7_Witness ==
    /\ VttCleaned
    /\ IsCueOrMarkupFile(vttContent)
    /\ Len(SplitLines(vttContent)) = 3
    /\ \E line \in Range(SplitLines(vttContent)) : IsMarkupOnlyLine(line)
    /\ \E line \in Range(SplitLines(vttContent)) : IsCueIndexLine(line)
    /\ \E line \in Range(SplitLines(vttContent)) : IsCueTimingLine(line)

\* index of the first occurrence of x in t
FirstIndex(t, x) == CHOOSE i \in 1..Len(t) : t[i] = x /\ \A j \in 1..(i - 1) : t[j] # x

\* u holds every element of t exactly once, ordered by first occurrence in t
IsFirstSeenOrder(u, t) ==
    /\ Range(u) = Range(t)
    /\ \A i, j \in 1..Len(u) : i < j =>
          /\ u[i] # u[j]
          /\ FirstIndex(t, u[i]) < FirstIndex(t, u[j])

\* C8: the paragraph is the cleaned lines, each distinct one taken exactly
\* once in the order of its first occurrence, joined by single spaces.
C8_ParagraphDeduplicatedInOrder ==
    VttCleaned =>
        \E u \in BoundedSeq(Range(textLines), Len(textLines)) :
            /\ IsFirstSeenOrder(u, textLines)
            /\ fullParagraph = Join(u, <<" ">>)

C8_Witness ==
    /\ VttCleaned
    /\ Len(textLines) = 3
    /\ textLines[1] = textLines[3]
    /\ textLines[1] # textLines[2]
    /\ fullParagraph = textLines[1] \o <<" ">> \o textLines[2]

\* C9: with a non-empty caption paragraph the invocation only fetches the
\* metadata and returns that paragraph with method captions, confidence and
\* speakers absent, and the metadata or, when its fetch failed, no metadata;
\* it never throws and never enters the audio path.
C9_CaptionResultDespiteMetadataFailure ==
    IsTruthy(ytDlpTranscript) =>
        /\ pc \in {"afterCaption", "captionMetadata", "done"}
        /\ thrown = "none"
        /\ error = "none"
        /\ MadeCalls \cap AudioCalls = {}
        /\ pc = "done" =>
              \E m \in {Undefined, MetadataOf(VideoDetails)} :
                  result = Obj([transcript |-> ytDlpTranscript,
                                method |-> "youtube-captions-ydlp",
                                confidence |-> Undefined,
                                speakers |-> Undefined,
                                metadata |-> m])

C9_Witness ==
    /\ pc = "done"
    /\ IsTruthy(ytDlpTranscript)
    /\ result[2].transcript = ytDlpTranscript
    /\ result[2].metadata = Undefined

\* the speaker labels of an utterance list: the strings of its speaker
\* values other than the two sentinels
SpeakerLabels(utterances) ==
    IF utterances = Undefined THEN {}
    ELSE {StringOf(v) : v \in Range(utterances[2])} \ {"undefined", "null"}

\* C10: the speakers field of a result built from a Deepgram response is
\* absent when the utterances carry no speaker label, and otherwise an array
\* holding exactly the distinct labels, each once; the labels 0, 1, 0, null
\* give exactly "0" and "1".
C10_SpeakersDistinctWithoutSentinels ==
    /\ (pc = "done" /\ response # Undefined) =>
          LET labels == SpeakerLabels(response[2].utterances)
              speakers == result[2].speakers
          IN  IF labels = {} THEN speakers = Undefined
              ELSE /\ speakers # Undefined
                   /\ speakers[1] = "array"
                   /\ Range(speakers[2]) = labels
                   /\ Len(speakers[2]) = Cardinality(labels)
    /\ (pc = "done" /\ response # Undefined) =>
          (response[2].utterances = Arr(<<Num(0), Num(1), Num(0), Null>>) =>
              result[2].speakers = Arr(<<"0", "1">>))

C10_Witness ==
    /\ pc = "done"
    /\ response # Undefined
    /\ response[2].utterances = Arr(<<Num(0), Num(1), Num(0), Null>>)
    /\ result[2].speakers = Arr(<<"0", "1">>)

\* the steps of the audio path in the order of the code
AudioStepOrder == <<"getInfo:audio", "chooseFormat", "downloadAudio", "transcribeFile">>
IsAudioCall(call) == call \in AudioCalls
AudioCallsMade == SelectSeq(calls, IsAudioCall)

\* C11: on the audio path the steps run in the fixed order metadata fetch,
\* format selection, download, speech-to-text, each at most once, and a
\* step is started only when every earlier step has succeeded: a failed
\* metadata fetch is followed by no later step, a failed format selection
\* by no download, a rejected download by no speech-to-text submission.
C11_AudioStepsInOrder ==
    /\ Len(AudioCallsMade) <= Len(AudioStepOrder)
    /\ AudioCallsMade = SubSeq(AudioStepOrder, 1, Len(AudioCallsMade))
    /\ error = "getInfoFailed" => AudioCallsMade = <<"getInfo:audio">>
    /\ error = "noAudioFormat" => AudioCallsMade = <<"getInfo:audio", "chooseFormat">>
    /\ "downloadAudio" \in MadeCalls => metadata # Undefined
    /\ "transcribeFile" \in MadeCalls => dlPromise = "resolved"
    /\ dlPromise \notin {"none", "pending", "resolved"} =>
          "transcribeFile" \notin MadeCalls

C11_Witness ==
    /\ pc = "done"
    /\ error = "rejected:downloadStream"
    /\ AudioCallsMade = <<"getInfo:audio", "chooseFormat", "downloadAudio">>

\* a step in which safeDeleteFile failed to delete a file
UnlinkFailed == unlinkWarned' # unlinkWarned

\* what the enclosing call hands on when the deletion succeeds
OutcomeAsIfDeleted ==
    /\ thrown' = thrown
    /\ error' = error
    /\ pc = "capFinally" => pc' = "afterCaption" /\ ytDlpTranscript' = capReturn
    /\ pc = "catch" =>
          /\ pc' = "done"
          /\ result'[2].transcript = Null /\ result'[2].method = "deepgram"
    /\ pc = "awaitTranscribe" =>
          /\ pc' = "done"
          /\ result'[2].method = "deepgram"
          /\ result'[2].metadata = metadata
          /\ result'[2].speakers = UniqueSpeakers(response'[2].utterances)
          /\ response'[2].alternative # Undefined =>
                result'[2].transcript = Str(response'[2].alternative[2].transcript)

\* C14: a failure to delete a file inside safeDeleteFile is logged and
\* swallowed: the step in which the deletion fails throws nothing and
\* hands on the outcome the enclosing call has when the deletion succeeds
\* (the caption step its return value, the audio path its result).
C14_DeletionFailureSwallowed == [][UnlinkFailed => OutcomeAsIfDeleted]_vars

C14_Witness ==
    /\ pc = "done"
    /\ AudioFilePath(videoId) \in unlinkWarned
    /\ AudioFilePath(videoId) \in disk
    /\ error = "none"
    /\ result[2].transcript # Null

\* C16: a null transcript is returned only on failure: when the
\* speech-to-text call has returned without error, the result with method
\* "deepgram" carries a non-null transcript, and a null transcript is
\* produced only by the error handler of the audio path.
C16_NullTranscriptOnlyOnFailure ==
    (pc = "done" /\ result[2].method = "deepgram") =>
        /\ response # Undefined => result[2].transcript # Null
        /\ result[2].transcript = Null => error # "none"

\* C19: when downloadAudio has resolved and extractTranscript has read the
\* audio file, every chunk delivered by the download stream had been
\* written to the file: the buffer handed to the speech-to-text service
\* holds all of them.
C19_ReadSeesEveryDeliveredChunk ==
    "transcribeFile" \in MadeCalls => audioFileBuffer = delivered

\* C20: on every path by which downloadAudio settles before the 5 minutes
\* (download end, download stream error, write stream error) the timer is
\* cancelled, so no timeout callback is pending once extractTranscript has
\* returned.
C20_NoTimerPendingAfterReturn ==
    /\ dlPromise \in {"resolved", "rejected:downloadStream", "rejected:audioStream"} =>
          timeout # "pending"
    /\ Returned => timeout # "pending"

\* what holds of generateSummary in every state
SummaryNeverThrows ==
    /\ sumThrown = "none"
    /\ serviceCalls <= 1
    /\ geminiApiKey \in {Undefined, Str("")} =>
          /\ serviceCalls = 0
          /\ sumPc \in {"start", "returned"}
          /\ sumPc = "returned" => summary = Null
    /\ sumPc = "returned" => summary # Undefined
    /\ (sumPc = "returned" /\ summary # Null) => serviceCalls = 1

\* the step in which the service call fails returns null
ServiceFailureReturnsNull ==
    (sumPc = "awaitGenerateContent" /\ sumPc' = "returned") =>
        (summary' = Null /\ sumThrown' = "none")

\* C13: generateSummary never throws: without GEMINI_API_KEY it returns
\* null without contacting the service, when the service call fails it
\* returns null, and in every invocation the service is called at most
\* once.
C13_SummaryNeverThrows ==
    []SummaryNeverThrows /\ [][ServiceFailureReturnsNull]_vars

C13_Witness ==
    /\ sumPc = "returned"
    /\ serviceCalls = 1
    /\ summary = Null

\* the .env file has a line KEY=<non-empty value>
HasValueLine(envContent, key) ==
    \E i \in 1..Len(SplitLines(envContent)) :
        LET envLine == SplitLines(envContent)[i]
        IN  StartsWith(envLine, key \o <<"=">>) /\ Len(envLine) > Len(key) + 1

\* C18: once the setup script has checked the keys of an existing .env
\* file, it has reported the required key GEMINI_API_KEY as configured
\* whenever the file contains a line GEMINI_API_KEY=<non-empty value>, by
\* the criterion it applies to the optional keys, and as needing
\* configuration otherwise.
C18_RequiredKeyReportedByValue ==
    setupPc \in {"optionalKeys", "packageJson"} /\ keyReport[GEMINI_API_KEY] # "unchecked" =>
        /\ HasValueLine(envFile[2], GEMINI_API_KEY) =>
              keyReport[GEMINI_API_KEY] = "is configured"
        /\ keyReport[GEMINI_API_KEY] = "is configured" <=>
              OptionalKeyConfigured(envFile[2], GEMINI_API_KEY)

\* no recognised pattern occurs in the URL with an identifier after it
MatchesNoPattern(url) ==
    \A prefix \in {WatchPrefix, ShortPrefix, EmbedPrefix, VPrefix} :
        \A i \in 1..Len(url) :
            (i + Len(prefix) - 1 <= Len(url) /\ SubSeq(url, i, i + Len(prefix) - 1) = prefix)
                => (i + Len(prefix) > Len(url) \/ url[i + Len(prefix)] \in IdStops)

\* the URL the helper was given matches no pattern
HelperUrlRejected == videoUrl # Undefined /\ MatchesNoPattern(videoUrl[2])

\* C12: for a URL that matches none of the recognised patterns
\* extractVideoId returns null, and the input is rejected before any
\* external access: the interactive helper returns without asking further
\* and without saving anything, and extractTranscript called with an empty
\* URL or an empty video identifier throws before it has run the subtitle
\* tool, called the platform or the speech-to-text service, or created a
\* file.
C12_InvalidInputRejectedEarly ==
    /\ (videoUrl # Undefined /\ videoUrl[2] # <<>>) =>
          (MatchesNoPattern(videoUrl[2]) <=> helperVideoId = Null)
    /\ HelperUrlRejected =>
          /\ helperVideoId \in {Undefined, Null}
          /\ hPc = "returned"
          /\ rl = "closed"
          /\ title = Undefined /\ answeredLines = <<>>
          /\ saved = {}
    /\ saved # {} => \A file \in saved : file.videoId = ExtractVideoId(videoUrl[2])[2]
    /\ ((youtubeUrl = "" \/ videoId = "") /\ pc # "start") =>
          /\ pc = "threw" /\ thrown = "input"
          /\ calls = <<>>
          /\ disk = {}

C12_Witness ==
    /\ HelperUrlRejected
    /\ videoUrl[2] # <<>>
    /\ hPc = "returned"
    /\ pc = "threw"
    /\ youtubeUrl # ""

\* the line ends the input: "DONE", "done", or the second of two
\* consecutive empty lines
EndsInput(entered, k) ==
    \/ entered[k] \in {DONE, done}
    \/ k >= 2 /\ entered[k] = <<>> /\ entered[k - 1] = <<>>

\* the lines, each followed by a line feed
RECURSIVE AppendedLines(_)
AppendedLines(entered) ==
    IF entered = <<>> THEN <<>>
    ELSE Head(entered) \o <<"\n">> \o AppendedLines(Tail(entered))

\* C17: the input loop of the interactive helper ends exactly when the
\* line entered is "DONE" or "done" or is the second of two consecutive
\* empty lines; a single empty line followed by a non-empty line resets
\* the count and does not end the input; every line entered before the
\* terminating one is appended to the transcript in order (lines are the
\* answers as askQuestion returns them, trimmed).
C17_InputLoopTermination ==
    /\ hPc = "askLine" =>
          /\ \A k \in 1..Len(answeredLines) : ~EndsInput(answeredLines, k)
          /\ transcript = AppendedLines(answeredLines)
          /\ lineCount = Len(answeredLines) + 1
          /\ emptyLineCount =
                IF answeredLines # <<>> /\ answeredLines[Len(answeredLines)] = <<>>
                THEN 1 ELSE 0
    /\ hPc \in {"afterLoop", "askProceed", "save"} \/ (hPc = "returned" /\ answeredLines # <<>>) =>
          /\ EndsInput(answeredLines, Len(answeredLines))
          /\ \A k \in 1..(Len(answeredLines) - 1) : ~EndsInput(answeredLines, k)
          /\ transcript = AppendedLines(SubSeq(answeredLines, 1, Len(answeredLines) - 1))

C17_Witness ==
    /\ hPc = "afterLoop"
    /\ Len(answeredLines) = 4
    /\ answeredLines[1] = <<>>
    /\ answeredLines[2] # <<>>
    /\ answeredLines[3] = <<>>
    /\ answeredLines[4] = <<>>

\* the result of an invocation that runs alone, given what yt-dlp wrote
\* for its video and whether its audio path failed
ResultWhenAlone(inv) ==
    IF inv.ytDlpWrote = "captions"
    THEN [transcript |-> Obj(<<"captions", inv.videoId>>), method |-> "youtube-captions-ydlp"]
    ELSE IF inv.audioFailed
         THEN [transcript |-> Null, method |-> "deepgram"]
         ELSE [transcript |-> Obj(<<"audio", inv.videoId>>), method |-> "deepgram"]

\* C15: two invocations of extractTranscript that run concurrently for
\* different video identifiers are independent: what each reads is the
\* file written for its own video, its temporary files are neither
\* overwritten nor deleted by the other while it uses them, and each
\* returns the result it returns when it runs alone.
C15_ConcurrentInvocationsIndependent ==
    \A i \in DOMAIN invocation :
        LET inv == invocation[i]
        IN  /\ inv.vttContent # Undefined => inv.vttContent[2][2] = inv.videoId
            /\ inv.audioFileBuffer # Undefined => inv.audioFileBuffer[2][2] = inv.videoId
            /\ (inv.pc = "readVtt" /\ inv.ytDlpWrote # "none") =>
                  [path |-> TempVttFile(inv.videoId),
                   data |-> <<inv.ytDlpWrote, inv.videoId>>] \in sharedFiles
            /\ inv.pc = "awaitDownload" =>
                  [path |-> AudioFilePath(inv.videoId),
                   data |-> <<"audio", inv.videoId>>] \in sharedFiles
            /\ inv.pc = "done" => inv.result = ResultWhenAlone(inv)

C15_Witness ==
    /\ invocation # <<>>
    /\ invocation[1].pc = "awaitDownload"
    /\ invocation[2].pc = "readVtt"
    /\ invocation[2].ytDlpWrote = "captions"
    /\ Cardinality(sharedFiles) = 3

\* C21: both manual-entry helpers have closed the readline interface on
\* every exit path, so that the process can terminate:
\* runInteractiveHelper on each early return, cancellation and error after
\* its first prompt, runBatchHelper when no .txt file is found, when the
\* user declines to proceed, and after processing.
C21_ReadlineClosedOnEveryExit ==
    (hPc = "returned" \/ bPc = "returned") => rl = "closed"

====
